---- MODULE Spec2Model ----
(***************************************************************************)
(* A model of the geometry and aggregation core of mcp-nvv:                *)
(*   - src/src/lib/coordinates.ts   WGS84 envelope check and conversion    *)
(*   - src/src/tools/n2000-search.ts searchHandler / searchByBbox /        *)
(*                                   searchByKommunLan (lines 152-278)     *)
(*   - src/unnamed/part_001          simplifyWkt and Douglas-Peucker       *)
(*                                   (lines 1-109), and the bounding box   *)
(*                                   functions (lines 111-195)             *)
(*   - src/src/tools/detail.ts       detailHandler (lines 61-235) and      *)
(*                                   extentHandler (lines 267-315)         *)
(*   - src/src/lib/http-client.ts    request (lines 15-91)                 *)
(*                                                                         *)
(* Numbers.  JavaScript numbers are modelled by integers.  Latitudes and   *)
(* longitudes are counted in tenths of a degree (59.3 is 593); ring        *)
(* coordinates are counted in grid units.  Distances are kept as exact     *)
(* squared fractions, so every comparison the code makes between two       *)
(* distances, or between a distance and the tolerance, is decided exactly. *)
(* The bounds of a box are counted in units of 0.0000001.                  *)
(***************************************************************************)
EXTENDS Integers, Sequences, FiniteSets, TLC

VARIABLES
  \* ---- coordinate conversion (coordinates.ts)
  cop,        \* which function is called: "point" or "bbox"
  cin,        \* its argument
  cdone,      \* whether the call has completed
  cout,       \* its outcome: a returned value, or a thrown ValidationError
  \* ---- aggregated search (n2000-search.ts, searchHandler)
  pc,         \* position of the handler: "start", "await", "done", "threw"
  args,       \* the request
  mode,       \* "none", "bbox" or "kommunlan"
  calls,      \* per source: the promise of its upstream call
  launchLog,  \* the sources in the order their calls were launched
  settleLog,  \* the sources in the order their calls settled
  result,     \* what the handler returned or threw
  \* ---- WKT simplification (part_001, simplifyWkt)
  wkt,        \* the input text, as a sequence of tokens
  tolerance,  \* the tolerance argument, in half grid units
  sdone,      \* whether simplifyWkt has returned
  out,        \* the text simplifyWkt returned, as a sequence of tokens
  \* ---- coordinate-pair parsing (part_001, parseCoordRing)
  pin,        \* the coordinate string, as the sequence of its items
  pdone,      \* whether parseCoordRing has returned
  pout,       \* the pairs it returned
  \* ---- bounding boxes (part_001, lines 111-195)
  bop,        \* which function is called: "extract", "combine" or "toWkt"
  bin,        \* its argument
  bdone,      \* whether the call has completed
  bout,       \* its outcome: a returned value, or a thrown Error
  \* ---- detail and extent (detail.ts, detailHandler and extentHandler)
  hop,        \* which handler is called: "detail" or "extent"
  hargs,      \* the request
  hpc,        \* position of the handler: "start", "base", "batch", "single",
              \* "extent", "done", "threw"
  hbatch,     \* the number of the batch the handler awaits (0: none yet)
  hcalls,     \* per upstream call: its promise
  hlog,       \* the upstream calls in the order they were launched
  hsettled,   \* the upstream calls in the order they settled
  hresult,    \* what the handler returned or threw
  \* ---- transport (lib/http-client.ts, request)
  treq,       \* the client's base URL and the path the call is made with
  tpc,        \* position of request: "start", "fetch", "body", "done", "threw"
  tresp,      \* the response fetch resolved with, once it has
  ttimer,     \* the timeout timer: "unset", "armed", "cleared", "fired"
  tclock,     \* whether the timeout has elapsed since the call started
  tout        \* what request returned or threw

coordVars  == <<cop, cin, cdone, cout>>
searchVars == <<pc, args, mode, calls, launchLog, settleLog, result>>
simpVars   == <<wkt, tolerance, sdone, out>>
parseVars  == <<pin, pdone, pout>>
bboxVars   == <<bop, bin, bdone, bout>>
handlerVars == <<hop, hargs, hpc, hbatch, hcalls, hlog, hsettled, hresult>>
httpVars   == <<treq, tpc, tresp, ttimer, tclock, tout>>
vars       == <<cop, cin, cdone, cout, pc, args, mode, calls, launchLog, settleLog,
                result, wkt, tolerance, sdone, out, pin, pdone, pout, bop, bin,
                bdone, bout, hop, hargs, hpc, hbatch, hcalls, hlog, hsettled, hresult,
                treq, tpc, tresp, ttimer, tclock, tout>>

\* The value of a variable that plays no part in the specification at hand.
Unused == "unused"

(***************************************************************************)
(* JavaScript values                                                       *)
(***************************************************************************)
\* An optional value is a sequence: empty when the value is undefined, and
\* of length one when it is given.
Absent == << >>
Some(v) == <<v>>
IsDefined(o) == Len(o) > 0

\* The `field` of a ValidationError constructed without one.
NoField == "undefined"

\* An error thrown with `new ValidationError(message, field)`.
ValidationError(message, field) ==
  [ok |-> FALSE, error |-> "ValidationError", field |-> field, message |-> message]

\* A value returned normally.
Returned(v) == [ok |-> TRUE, value |-> v]

\* The outcome of a call that has not completed yet.
NoOutcome == [ok |-> FALSE, error |-> "none", field |-> "none", message |-> "none"]

(***************************************************************************)
(* coordinates.ts                                                          *)
(***************************************************************************)
\* const WGS84_BOUNDS, in tenths of a degree.
WGS84_BOUNDS == [minLat |-> 550, maxLat |-> 690, minLon |-> 110, maxLon |-> 240]

IsValidMutLat(latitude, longitude) ==
  /\ latitude > WGS84_BOUNDS.minLat
  /\ latitude <= WGS84_BOUNDS.maxLat
  /\ longitude >= WGS84_BOUNDS.minLon
  /\ longitude < WGS84_BOUNDS.maxLon

isValidWgs84Coordinate(latitude, longitude) ==
  /\ latitude >= WGS84_BOUNDS.minLat
  /\ latitude <= WGS84_BOUNDS.maxLat
  /\ longitude >= WGS84_BOUNDS.minLon
  /\ longitude <= WGS84_BOUNDS.maxLon

\* proj4('EPSG:4326', 'EPSG:3006', [lon, lat]).  proj4 is a library outside the
\* repository; its result is kept symbolic: an easting and a northing that
\* each depend on both inputs (a transverse Mercator projection).
proj4Forward(lon, lat) ==
  <<[axis |-> "easting", lon |-> lon, lat |-> lat],
    [axis |-> "northing", lon |-> lon, lat |-> lat]>>

OutsideMessage(lat, lon) == [text |-> "outside valid range for Sweden", lat |-> lat, lon |-> lon]
PlainMessage(text) == [text |-> text, lat |-> 0, lon |-> 0]

wgs84ToSweref99(point) ==
  IF ~isValidWgs84Coordinate(point.latitude, point.longitude)
  THEN ValidationError(OutsideMessage(point.latitude, point.longitude), "coordinates")
  ELSE LET r == proj4Forward(point.longitude, point.latitude)
       IN  Returned([x |-> r[1], y |-> r[2]])

BboxMutNoOrder(bbox) ==
  IF ~isValidWgs84Coordinate(bbox.minLat, bbox.minLon)
  THEN ValidationError(OutsideMessage(bbox.minLat, bbox.minLon), "bbox")
  ELSE IF ~isValidWgs84Coordinate(bbox.maxLat, bbox.maxLon)
  THEN ValidationError(OutsideMessage(bbox.maxLat, bbox.maxLon), "bbox")
  ELSE IF bbox.minLat > bbox.maxLat
  THEN ValidationError(PlainMessage("minLat must be less than maxLat"), "bbox")
  ELSE IF bbox.minLon >= bbox.maxLon
  THEN ValidationError(PlainMessage("minLon must be less than maxLon"), "bbox")
  ELSE LET minCorner == wgs84ToSweref99([latitude |-> bbox.minLat, longitude |-> bbox.minLon])
           maxCorner == wgs84ToSweref99([latitude |-> bbox.maxLat, longitude |-> bbox.maxLon])
       IN  Returned([minX |-> minCorner.value.x, minY |-> minCorner.value.y,
                     maxX |-> maxCorner.value.x, maxY |-> maxCorner.value.y])

wgs84BboxToSweref99(bbox) ==
  IF ~isValidWgs84Coordinate(bbox.minLat, bbox.minLon)
  THEN ValidationError(OutsideMessage(bbox.minLat, bbox.minLon), "bbox")
  ELSE IF ~isValidWgs84Coordinate(bbox.maxLat, bbox.maxLon)
  THEN ValidationError(OutsideMessage(bbox.maxLat, bbox.maxLon), "bbox")
  ELSE IF bbox.minLat >= bbox.maxLat
  THEN ValidationError(PlainMessage("minLat must be less than maxLat"), "bbox")
  ELSE IF bbox.minLon >= bbox.maxLon
  THEN ValidationError(PlainMessage("minLon must be less than maxLon"), "bbox")
  ELSE \* a corner that passed the checks above cannot throw here
       LET minCorner == wgs84ToSweref99([latitude |-> bbox.minLat, longitude |-> bbox.minLon])
           maxCorner == wgs84ToSweref99([latitude |-> bbox.maxLat, longitude |-> bbox.maxLon])
       IN  Returned([minX |-> minCorner.value.x, minY |-> minCorner.value.y,
                     maxX |-> maxCorner.value.x, maxY |-> maxCorner.value.y])

\* Latitudes and longitudes given to the conversion functions, in tenths of a
\* degree: below, on and above each bound of the envelope, and points inside.
LatInputs == {400, 549, 550, 593, 594, 690, 691}
LonInputs == {50, 109, 110, 180, 181, 240, 241}

CoordInit ==
  /\ cop \in {"point", "bbox"}
  /\ \/ /\ cop = "point"
        /\ cin \in [latitude : LatInputs, longitude : LonInputs]
     \/ /\ cop = "bbox"
        /\ cin \in [minLat : LatInputs, minLon : LonInputs,
                    maxLat : LatInputs, maxLon : LonInputs]
  /\ cdone = FALSE
  /\ cout = NoOutcome
  /\ pc = Unused /\ args = Unused /\ mode = Unused /\ calls = Unused
  /\ launchLog = Unused /\ settleLog = Unused /\ result = Unused
  /\ wkt = Unused /\ tolerance = Unused /\ sdone = Unused /\ out = Unused
  /\ pin = Unused /\ pdone = Unused /\ pout = Unused
  /\ bop = Unused /\ bin = Unused /\ bdone = Unused /\ bout = Unused
  /\ hop = Unused /\ hargs = Unused /\ hpc = Unused /\ hbatch = Unused
  /\ hcalls = Unused /\ hlog = Unused /\ hsettled = Unused /\ hresult = Unused
  /\ tpc = Unused /\ tresp = Unused /\ ttimer = Unused /\ tclock = Unused
  /\ tout = Unused /\ treq = Unused

\* A call of wgs84ToSweref99.
ConvertPoint ==
  /\ cop = "point"
  /\ ~cdone
  /\ cdone' = TRUE
  /\ cout' = wgs84ToSweref99(cin)
  /\ UNCHANGED <<cop, cin>>

\* A call of wgs84BboxToSweref99.
ConvertBbox ==
  /\ cop = "bbox"
  /\ ~cdone
  /\ cdone' = TRUE
  /\ cout' = wgs84BboxToSweref99(cin)
  /\ UNCHANGED <<cop, cin>>

CoordNext ==
  \/ ConvertPoint /\ UNCHANGED <<searchVars, simpVars, parseVars, bboxVars, handlerVars, httpVars>>
  \/ ConvertBbox /\ UNCHANGED <<searchVars, simpVars, parseVars, bboxVars, handlerVars, httpVars>>

(***************************************************************************)
(* n2000-search.ts, lines 152-278: the aggregated search                   *)
(***************************************************************************)
Sources == {"national", "n2000", "ramsar"}

\* Bound: the largest number of records one upstream call returns.
MaxRecords == 2

\* `args.limit ?? 100`
DefaultLimit == 100

\* A JavaScript object is a function from its field names to their values.
\* { ...a, ...b }: the fields of both, b's value where both have the field.
Spread(a, b) ==
  [f \in (DOMAIN a) \cup (DOMAIN b) |-> IF f \in DOMAIN b THEN b[f] ELSE a[f]]

\* const { <field>, ...rest } = obj
Rest(obj, field) == [f \in (DOMAIN obj) \ {field} |-> obj[f]]

\* The records an upstream client can return, by request mode and source.
\* Of each record type the identifier and one more field are kept:
\*   ProtectedArea {id, name, ...}   nvvClient.listAreas (wfs-client.ts:145-193)
\*   N2000Area     {kod, name, ...}  n2000Client.listAreas (types/n2000-api.ts:54-67)
\*   RamsarArea    {id, name, ...}   ramsarClient.listAreas (types/n2000-api.ts:160-175)
\*   WfsBboxArea   {id, name, ...}   wfsClient.searchNational / searchN2000
\* The same place can be registered under several sources.
UpstreamRecords(m, source) ==
  IF m = "kommunlan" /\ source = "n2000"
  THEN {[kod |-> "SE0110001", name |-> "Tyresta"], [kod |-> "SE0110002", name |-> "Angso"]}
  ELSE {[id |-> "2000019", name |-> "Tyresta"], [id |-> "2000140", name |-> "Angso"]}

\* The values an upstream call can be fulfilled with.
UpstreamValues(m, source) ==
  UNION {[1..n -> UpstreamRecords(m, source)] : n \in 0..MaxRecords}

\* The reasons an upstream call can be rejected with: the UpstreamApiError
\* of request for a timeout and for a response 500 (lib/http-client.ts,
\* lines 53-57 and 81-85), an error object without a message, and a
\* rejection with no reason.  The dash of the source's texts (U+2014) is
\* written "-" here.
NoReason == [defined |-> FALSE, message |-> Absent]
UpstreamReasons ==
  { [defined |-> TRUE, message |-> Some("The request timed out. The data service may be slow - try again or use a smaller search area.")],
    [defined |-> TRUE, message |-> Some("The data service returned an error (HTTP 500). This is usually temporary - try again.")],
    [defined |-> TRUE, message |-> Absent],
    NoReason }

\* A promise: not created, pending, fulfilled with a value or rejected with a reason.
NoCall == [status |-> "none", value |-> << >>, reason |-> NoReason]
PendingCall == [status |-> "pending", value |-> << >>, reason |-> NoReason]
Fulfilled(v) == [status |-> "fulfilled", value |-> v, reason |-> NoReason]
Rejected(r) == [status |-> "rejected", value |-> << >>, reason |-> r]

\* The sources a search mode queries, in the order of the array given to
\* Promise.allSettled (lines 188-191 and 232-236).
ApplicableMutRamsar(m) ==
  IF m = "bbox" THEN <<"national", "n2000", "ramsar">>
  ELSE IF m = "kommunlan" THEN <<"national", "n2000", "ramsar">>
  ELSE << >>

Applicable(m) ==
  IF m = "bbox" THEN <<"national", "n2000">>
  ELSE IF m = "kommunlan" THEN <<"national", "n2000", "ramsar">>
  ELSE << >>

Range(q) == {q[i] : i \in DOMAIN q}

\* !!args.kommun : a string is truthy when it is given and not empty
Truthy(o) == IsDefined(o) /\ o[1] # ""

\* x || undefined, for an optional string
OrUndefined(o) == IF Truthy(o) THEN o ELSE Absent

\* searchHandler up to the point where the upstream calls are created
\* (lines 153-172, 176-186, 226-230): the mode the request is served in and
\* the parameters every upstream call is given, or the ValidationError the
\* request is rejected with.
searchHandlerCheck(a) ==
  LET hasBbox   == IsDefined(a.minLat) \/ IsDefined(a.minLon)
                   \/ IsDefined(a.maxLat) \/ IsDefined(a.maxLon)
      hasKommun == Truthy(a.kommun)
      hasLan    == Truthy(a.lan)
      limit     == IF IsDefined(a.limit) THEN a.limit[1] ELSE DefaultLimit
  IN  IF ~hasBbox /\ ~hasKommun /\ ~hasLan
      THEN ValidationError(PlainMessage("Provide kommun/lan codes OR bbox coordinates"), NoField)
      ELSE IF hasBbox /\ (hasKommun \/ hasLan)
      THEN ValidationError(PlainMessage("Provide either kommun/lan OR bbox coordinates, not both"), NoField)
      ELSE IF hasBbox
      THEN IF ~IsDefined(a.minLat) \/ ~IsDefined(a.minLon)
              \/ ~IsDefined(a.maxLat) \/ ~IsDefined(a.maxLon)
           THEN ValidationError(PlainMessage("All four bbox parameters required"), NoField)
           ELSE LET swerefBbox == wgs84BboxToSweref99(
                       [minLat |-> a.minLat[1], minLon |-> a.minLon[1],
                        maxLat |-> a.maxLat[1], maxLon |-> a.maxLon[1]])
                IN  IF swerefBbox.ok
                    THEN Returned([mode |-> "bbox",
                                   params |-> [bbox |-> Some(swerefBbox.value),
                                               kommun |-> Absent, lan |-> Absent,
                                               limit |-> limit]])
                    ELSE swerefBbox
      ELSE Returned([mode |-> "kommunlan",
                     params |-> [bbox |-> Absent,
                                 kommun |-> OrUndefined(a.kommun),
                                 lan |-> OrUndefined(a.lan),
                                 limit |-> limit]])

\* The promises right after the array given to Promise.allSettled has been
\* evaluated: one call created for every source of the list, none awaited.
LaunchMutSequential(srcs) ==
  [s \in Sources |-> IF Len(srcs) > 0 /\ s = srcs[1] THEN PendingCall ELSE NoCall]

LaunchAll(srcs) ==
  [s \in Sources |-> IF s \in Range(srcs) THEN PendingCall ELSE NoCall]

\* Promise.allSettled resolves when every promise of its array has settled.
AllSettledMutAll(c, srcs) ==
  \/ \A i \in DOMAIN srcs : c[srcs[i]].status = "fulfilled"
  \/ \E i \in DOMAIN srcs : c[srcs[i]].status = "rejected"

AllSettled(c, srcs) ==
  \A i \in DOMAIN srcs : c[srcs[i]].status \in {"fulfilled", "rejected"}

\* areas.push({ source: '<source>', ...area })
TagMutSpreadFirst(source, area) == Spread(area, [source |-> "national"])

Tag(source, area) == Spread([source |-> source], area)

\* const { kod, ...rest } = area; areas.push({ source: 'n2000', id: kod, ...rest })
TagN2000MutKeepKod(area) == Spread([source |-> "n2000", id |-> area.kod], area)

TagN2000(area) == Spread([source |-> "n2000", id |-> area.kod], Rest(area, "kod"))

\* <source>.reason?.message ?? 'Unknown error'
ReasonMessage(reason) ==
  IF reason.defined /\ IsDefined(reason.message) THEN reason.message[1] ELSE "Unknown error"

\* One branch of the result construction: the records pushed to `areas`
\* for a settled promise (lines 196-199, 241-244, 249-253, 258-261).
AreasOf(m, source, p) ==
  IF p.status = "fulfilled"
  THEN IF m = "kommunlan" /\ source = "n2000"
       THEN [i \in 1..Len(p.value) |-> TagN2000(p.value[i])]
       ELSE [i \in 1..Len(p.value) |-> Tag(source, p.value[i])]
  ELSE << >>

\* ... and the entry pushed to `errors` otherwise.
ErrorsOfMutSwallow(source, p) == << >>

ErrorsOf(source, p) ==
  IF p.status = "fulfilled" THEN << >>
  ELSE <<[source |-> source, message |-> ReasonMessage(p.reason)]>>

\* <source>.status === 'fulfilled' ? <source>.value.length : 0
CountOfMutOne(p) == IF p.status = "fulfilled" THEN 1 ELSE 0

CountOf(p) == IF p.status = "fulfilled" THEN Len(p.value) ELSE 0

\* searchByBbox after the await (lines 193-222).
searchByBboxResult(c) ==
  LET nationalCount == CountOf(c["national"])
      n2000Count    == CountOf(c["n2000"])
  IN  [total_count    |-> nationalCount + n2000Count,
       national_count |-> nationalCount,
       n2000_count    |-> n2000Count,
       ramsar_count   |-> Absent,
       note   |-> Some("Bbox search covers national and Natura 2000 areas."),
       errors |-> ErrorsOf("national", c["national"]) \o ErrorsOf("n2000", c["n2000"]),
       areas  |-> AreasOf("bbox", "national", c["national"])
                  \o AreasOf("bbox", "n2000", c["n2000"])]

\* searchByKommunLan after the await (lines 238-277).
KommunLanMutCompletionOrder(c) ==
  LET nationalCount == CountOf(c["national"])
      n2000Count    == CountOf(c["n2000"])
      ramsarCount   == CountOf(c["ramsar"])
      first  == settleLog[1]
      second == settleLog[2]
      third  == settleLog[3]
  IN  [total_count    |-> nationalCount + n2000Count + ramsarCount,
       national_count |-> nationalCount,
       n2000_count    |-> n2000Count,
       ramsar_count   |-> Some(ramsarCount),
       note   |-> Absent,
       errors |-> ErrorsOf(first, c[first]) \o ErrorsOf(second, c[second])
                  \o ErrorsOf(third, c[third]),
       areas  |-> AreasOf("kommunlan", first, c[first])
                  \o AreasOf("kommunlan", second, c[second])
                  \o AreasOf("kommunlan", third, c[third])]

searchByKommunLanResult(c) ==
  LET nationalCount == CountOf(c["national"])
      n2000Count    == CountOf(c["n2000"])
      ramsarCount   == CountOf(c["ramsar"])
  IN  [total_count    |-> nationalCount + n2000Count + ramsarCount,
       national_count |-> nationalCount,
       n2000_count    |-> n2000Count,
       ramsar_count   |-> Some(ramsarCount),
       note   |-> Absent,
       errors |-> ErrorsOf("national", c["national"]) \o ErrorsOf("n2000", c["n2000"])
                  \o ErrorsOf("ramsar", c["ramsar"]),
       areas  |-> AreasOf("kommunlan", "national", c["national"])
                  \o AreasOf("kommunlan", "n2000", c["n2000"])
                  \o AreasOf("kommunlan", "ramsar", c["ramsar"])]

\* Requests.  Latitudes and longitudes in tenths of a degree.
KommunInputs == {Absent, Some(""), Some("0180")}
LanInputs    == {Absent, Some("AB")}
BboxLatInputs == {Absent, Some(540), Some(593), Some(594)}
BboxLonInputs == {Absent, Some(180), Some(181)}
LimitInputs  == {Absent, Some(5)}

SearchInit ==
  /\ pc = "start"
  /\ args \in [kommun : KommunInputs, lan : LanInputs,
               minLat : BboxLatInputs, minLon : BboxLonInputs,
               maxLat : BboxLatInputs, maxLon : BboxLonInputs,
               limit : LimitInputs]
  /\ mode = "none"
  /\ calls = [s \in Sources |-> NoCall]
  /\ launchLog = << >>
  /\ settleLog = << >>
  /\ result = NoOutcome
  /\ cop = Unused /\ cin = Unused /\ cdone = Unused /\ cout = Unused
  /\ wkt = Unused /\ tolerance = Unused /\ sdone = Unused /\ out = Unused
  /\ pin = Unused /\ pdone = Unused /\ pout = Unused
  /\ bop = Unused /\ bin = Unused /\ bdone = Unused /\ bout = Unused
  /\ hop = Unused /\ hargs = Unused /\ hpc = Unused /\ hbatch = Unused
  /\ hcalls = Unused /\ hlog = Unused /\ hsettled = Unused /\ hresult = Unused
  /\ tpc = Unused /\ tresp = Unused /\ ttimer = Unused /\ tclock = Unused
  /\ tout = Unused /\ treq = Unused

\* searchHandler is called and rejects the request with a ValidationError.
InvokeRejectMutLaunchFirst ==
  /\ pc = "start"
  /\ ~searchHandlerCheck(args).ok
  /\ pc' = "threw"
  /\ result' = searchHandlerCheck(args)
  /\ calls' = LaunchAll(<<"national">>)
  /\ launchLog' = <<[source |-> "national", params |-> Absent]>>
  /\ UNCHANGED <<args, mode, settleLog>>

InvokeReject ==
  /\ pc = "start"
  /\ ~searchHandlerCheck(args).ok
  /\ pc' = "threw"
  /\ result' = searchHandlerCheck(args)
  /\ UNCHANGED <<args, mode, calls, launchLog, settleLog>>

\* searchHandler is called, accepts the request and runs up to its await:
\* the array of promises is built, which creates every upstream call.
InvokeLaunch ==
  /\ pc = "start"
  /\ searchHandlerCheck(args).ok
  /\ LET req == searchHandlerCheck(args).value
         launched == LaunchAll(Applicable(req.mode))
     IN  /\ mode' = req.mode
         /\ calls' = launched
            \* one log entry for every call that was created, in array order
         /\ launchLog' =
              LET created == SelectSeq(<<"national", "n2000", "ramsar">>,
                                       LAMBDA s : launched[s].status = "pending")
              IN  [i \in 1..Len(created) |->
                     [source |-> created[i], params |-> req.params]]
  /\ pc' = "await"
  /\ UNCHANGED <<args, settleLog, result>>

\* The upstream call of one source is fulfilled.
Fulfill(s) ==
  /\ pc = "await"
  /\ calls[s].status = "pending"
  /\ \E v \in UpstreamValues(mode, s) : calls' = [calls EXCEPT ![s] = Fulfilled(v)]
  /\ settleLog' = Append(settleLog, s)
  /\ UNCHANGED <<pc, args, mode, launchLog, result>>

\* The upstream call of one source is rejected.
Reject(s) ==
  /\ pc = "await"
  /\ calls[s].status = "pending"
  /\ \E r \in UpstreamReasons : calls' = [calls EXCEPT ![s] = Rejected(r)]
  /\ settleLog' = Append(settleLog, s)
  /\ UNCHANGED <<pc, args, mode, launchLog, result>>

\* Promise.allSettled resolves and the handler runs to its return.
Join ==
  /\ pc = "await"
  /\ AllSettled(calls, Applicable(mode))
  /\ result' = Returned(IF mode = "bbox" THEN searchByBboxResult(calls)
                        ELSE searchByKommunLanResult(calls))
  /\ pc' = "done"
  /\ UNCHANGED <<args, mode, calls, launchLog, settleLog>>

SearchNext ==
  \/ InvokeReject /\ UNCHANGED <<coordVars, simpVars, parseVars, bboxVars, handlerVars, httpVars>>
  \/ InvokeLaunch /\ UNCHANGED <<coordVars, simpVars, parseVars, bboxVars, handlerVars, httpVars>>
  \/ \E s \in Sources : Fulfill(s) /\ UNCHANGED <<coordVars, simpVars, parseVars, bboxVars, handlerVars, httpVars>>
  \/ \E s \in Sources : Reject(s) /\ UNCHANGED <<coordVars, simpVars, parseVars, bboxVars, handlerVars, httpVars>>
  \/ Join /\ UNCHANGED <<coordVars, simpVars, parseVars, bboxVars, handlerVars, httpVars>>

(***************************************************************************)
(* part_001, lines 1-109: simplifyWkt                                      *)
(*                                                                         *)
(* Text.  A WKT string is a sequence of tokens: an opening parenthesis, a  *)
(* closing parenthesis, or a chunk, a non-empty run of characters without  *)
(* parentheses.  A chunk is the sequence of its comma-separated items; an  *)
(* item is its whitespace-separated parts, with the number of blanks       *)
(* before the first part (lead), between two parts (gap) and after the     *)
(* last part (trail).  A part is a string.                                 *)
(***************************************************************************)
\* Bound: the largest number of coordinate pairs of an enumerated ring.
MaxPoints == 5

Open == [kind |-> "open", items |-> << >>]
Close == [kind |-> "close", items |-> << >>]
Chunk(items) == [kind |-> "chunk", items |-> items]
Item(lead, parts, gap, trail) == [lead |-> lead, parts |-> parts, gap |-> gap, trail |-> trail]

\* A number: not NaN and a value, or NaN.
Num(v) == [nan |-> FALSE, v |-> v]
NaN == [nan |-> TRUE, v |-> 0]

\* The IEEE value Infinity, kept as an integer above every other number of
\* the model; -Infinity is its negative.
Infinity == 2000000000

\* The integers whose decimal numeral ToString writes as JavaScript does.
Numerals == 0..20

\* parseFloat(part): the number written by the longest prefix of the part
\* that is a numeral, NaN when there is none.
parseFloat(part) ==
  IF \E n \in Numerals : ToString(n) = part
  THEN Num(CHOOSE n \in Numerals : ToString(n) = part)
  ELSE CASE part = "1.0"  -> Num(1)
         [] part = "02"   -> Num(2)
         [] part = "1e0"  -> Num(1)
         [] part = "2abc" -> Num(2)
         [] part = "Infinity"  -> Num(Infinity)
         [] part = "-Infinity" -> Num(-Infinity)
         [] OTHER         -> NaN

\* One element of the map in parseCoordRing (lines 50-57): the pair an item
\* is parsed to, as a sequence of length one, or the empty sequence for null.
parsePair(item) ==
  IF Len(item.parts) < 2 THEN << >>
  ELSE LET x == parseFloat(item.parts[1])
           y == parseFloat(item.parts[2])
       IN  IF x.nan \/ y.nan THEN << >> ELSE << <<x.v, y.v>> >>

RECURSIVE FlattenFrom(_, _)
FlattenFrom(qs, i) == IF i > Len(qs) THEN << >> ELSE qs[i] \o FlattenFrom(qs, i + 1)

\* parseCoordRing (lines 47-59): the pairs of the items that parse, in order.
parseCoordRing(items) == FlattenFrom([i \in 1..Len(items) |-> parsePair(items[i])], 1)

\* A distance, kept as the exact fraction num/den of its square.
SqDist(num, den) == [num |-> num, den |-> den]
\* a > b, for two distances
DistGT(a, b) == a.num * b.den > b.num * a.den

\* The tolerance as a distance; the argument counts half grid units.
ToleranceDist(t) == SqDist(t * t, 4)

\* perpendicularDistance (lines 94-109)
perpendicularDistance(point, lineStart, lineEnd) ==
  LET x == point[1]      y == point[2]
      x1 == lineStart[1] y1 == lineStart[2]
      x2 == lineEnd[1]   y2 == lineEnd[2]
      lineLengthSq == (x2 - x1) * (x2 - x1) + (y2 - y1) * (y2 - y1)
      cross == (y2 - y1) * x - (x2 - x1) * y + x2 * y1 - y2 * x1
  IN  IF lineLengthSq = 0
      THEN SqDist((x - x1) * (x - x1) + (y - y1) * (y - y1), 1)
      ELSE SqDist(cross * cross, lineLengthSq)

\* The loop of simplifyPath (lines 69-80) from index i on, with the maximum
\* found so far; indices count from 1.
RECURSIVE FarthestFrom(_, _, _, _)
FarthestFrom(coords, i, maxDist, maxIndex) ==
  IF i > Len(coords) - 1 THEN [maxDist |-> maxDist, maxIndex |-> maxIndex]
  ELSE LET dist == perpendicularDistance(coords[i], coords[1], coords[Len(coords)])
       IN  IF DistGT(dist, maxDist)
           THEN FarthestFrom(coords, i + 1, dist, i)
           ELSE FarthestFrom(coords, i + 1, maxDist, maxIndex)

FarthestMutSkipFirst(coords) == FarthestFrom(coords, 3, SqDist(0, 1), 1)

Farthest(coords) == FarthestFrom(coords, 2, SqDist(0, 1), 1)

\* [...left.slice(0, -1), ...right] (line 85)
JoinHalvesMutKeep(left, right) == left \o right

JoinHalves(left, right) == SubSeq(left, 1, Len(left) - 1) \o right

\* simplifyPath (lines 66-89)
RECURSIVE simplifyPath(_, _)
simplifyPath(coords, tol) ==
  IF Len(coords) <= 2 THEN coords
  ELSE LET far == Farthest(coords)
       IN  IF DistGT(far.maxDist, ToleranceDist(tol))
           THEN JoinHalves(simplifyPath(SubSeq(coords, 1, far.maxIndex), tol),
                           simplifyPath(SubSeq(coords, far.maxIndex, Len(coords)), tol))
           ELSE <<coords[1], coords[Len(coords)]>>

\* simplified.map(([x, y]) => `${x} ${y}`).join(', ') (line 39)
FormatRing(points) ==
  [i \in 1..Len(points) |->
     Item(IF i = 1 THEN 0 ELSE 1, <<ToString(points[i][1]), ToString(points[i][2])>>, 1, 0)]

\* The callback of replace (lines 23-40): the text put between the
\* parentheses of a matched group.
ReplacementMutNoMinimum(coordString, tol) ==
  LET coords == parseCoordRing(coordString)
  IN  IF Len(coords) < 4 THEN coordString
      ELSE LET simplified == simplifyPath(coords, tol)
               first == simplified[1]
               last == simplified[Len(simplified)]
           IN  FormatRing(IF first # last THEN Append(simplified, first) ELSE simplified)

ReplacementMutNoClose(coordString, tol) ==
  LET coords == parseCoordRing(coordString)
  IN  IF Len(coords) < 4 THEN coordString
      ELSE LET simplified == simplifyPath(coords, tol)
           IN  IF Len(simplified) < 4 THEN coordString ELSE FormatRing(simplified)

ReplacementMutKeepSame(coordString, tol) ==
  LET coords == parseCoordRing(coordString)
  IN  IF Len(coords) < 4 THEN coordString
      ELSE LET simplified == simplifyPath(coords, tol)
           IN  IF Len(simplified) < 4 \/ Len(simplified) = Len(coords) THEN coordString
               ELSE LET first == simplified[1]
                        last == simplified[Len(simplified)]
                    IN  FormatRing(IF first # last THEN Append(simplified, first)
                                   ELSE simplified)

Replacement(coordString, tol) ==
  LET coords == parseCoordRing(coordString)
  IN  IF Len(coords) < 4 THEN coordString
      ELSE LET simplified == simplifyPath(coords, tol)
           IN  IF Len(simplified) < 4 THEN coordString
               ELSE LET first == simplified[1]
                        last == simplified[Len(simplified)]
                    IN  FormatRing(IF first # last THEN Append(simplified, first)
                                   ELSE simplified)

\* The matches of /\(([^()]+)\)/g : the positions of the chunks that stand
\* between an opening and a closing parenthesis.
IsGroup(text, i) ==
  /\ 1 < i /\ i < Len(text)
  /\ text[i].kind = "chunk"
  /\ text[i - 1].kind = "open"
  /\ text[i + 1].kind = "close"

\* simplifyWkt with a callback that returns the ring without the parentheses
\* of the match.
simplifyWktMutNoParens(text, tol) ==
  LET kept == {i \in 1..Len(text) : ~(IsGroup(text, i - 1) \/ IsGroup(text, i + 1))}
      rewritten == [i \in 1..Len(text) |->
                      IF IsGroup(text, i) THEN Chunk(Replacement(text[i].items, tol))
                      ELSE text[i]]
      RECURSIVE From(_)
      From(i) == IF i > Len(text) THEN << >>
                 ELSE (IF i \in kept THEN <<rewritten[i]>> ELSE << >>) \o From(i + 1)
  IN  From(1)

\* simplifyWkt (lines 20-41)
simplifyWkt(text, tol) ==
  [i \in 1..Len(text) |->
     IF IsGroup(text, i) THEN Chunk(Replacement(text[i].items, tol)) ELSE text[i]]

\* Inputs.  Coordinates in grid units, tolerances in half grid units.
XCoords == {0, 1, 2}
YCoords == {0, 1}
Points == XCoords \X YCoords
Tolerances == {0, 1, 3, 20}

Keyword(word) == Chunk(<<Item(0, <<word>>, 1, 1)>>)
Separator == Chunk(<<Item(0, << >>, 1, 0), Item(1, << >>, 1, 0)>>)

\* "POLYGON ((ring))"
Polygon(ring) == <<Keyword("POLYGON"), Open, Open, Chunk(ring), Close, Close>>
\* "POLYGON ((ring), (hole))"
PolygonWithHole(ring, hole) ==
  <<Keyword("POLYGON"), Open, Open, Chunk(ring), Close, Separator,
    Open, Chunk(hole), Close, Close>>
\* "MULTIPOLYGON (((ring1)), ((ring2)))"
MultiPolygon(ring1, ring2) ==
  <<Keyword("MULTIPOLYGON"), Open, Open, Open, Chunk(ring1), Close, Close, Separator,
    Open, Open, Chunk(ring2), Close, Close, Close>>

\* Rings written as simplifyWkt itself writes them.
PlainRings == {FormatRing(ps) : ps \in UNION {[1..n -> Points] : n \in 1..MaxPoints}}

\* A few rings: a closed triangle, a closed square, an open path of four
\* points, four points on a line.
SampleRings ==
  { FormatRing(<< <<0, 0>>, <<2, 0>>, <<1, 1>>, <<0, 0>> >>),
    FormatRing(<< <<0, 0>>, <<1, 0>>, <<1, 1>>, <<0, 1>>, <<0, 0>> >>),
    FormatRing(<< <<0, 0>>, <<2, 0>>, <<2, 1>>, <<0, 1>> >>),
    FormatRing(<< <<0, 0>>, <<1, 0>>, <<2, 0>>, <<0, 0>> >>) }

\* Items that are not written as simplifyWkt writes them: other spacing,
\* other numerals, a third coordinate, and items that do not parse.
OddItems ==
  { Item(2, <<"1.0", "02">>, 3, 1),
    Item(1, <<"2abc", "1e0", "7">>, 1, 0),
    Item(1, <<"abc", "1">>, 1, 0),
    Item(1, <<"1">>, 1, 0),
    Item(0, << >>, 1, 0) }

\* A sample ring with one more item put in front of its k-th item.
InsertAt(q, k, e) == SubSeq(q, 1, k - 1) \o <<e>> \o SubSeq(q, k, Len(q))
OddRings ==
  {InsertAt(r, k, e) : r \in SampleRings, k \in {2, 4}, e \in OddItems}

SimplifyInit ==
  /\ wkt \in {Polygon(r) : r \in PlainRings \cup OddRings}
           \cup {PolygonWithHole(r, h) : r \in SampleRings, h \in SampleRings}
           \cup {MultiPolygon(r, h) : r \in SampleRings, h \in SampleRings}
  /\ tolerance \in Tolerances
  /\ sdone = FALSE
  /\ out = << >>
  /\ cop = Unused /\ cin = Unused /\ cdone = Unused /\ cout = Unused
  /\ pc = Unused /\ args = Unused /\ mode = Unused /\ calls = Unused
  /\ launchLog = Unused /\ settleLog = Unused /\ result = Unused
  /\ pin = Unused /\ pdone = Unused /\ pout = Unused
  /\ bop = Unused /\ bin = Unused /\ bdone = Unused /\ bout = Unused
  /\ hop = Unused /\ hargs = Unused /\ hpc = Unused /\ hbatch = Unused
  /\ hcalls = Unused /\ hlog = Unused /\ hsettled = Unused /\ hresult = Unused
  /\ tpc = Unused /\ tresp = Unused /\ ttimer = Unused /\ tclock = Unused
  /\ tout = Unused /\ treq = Unused

\* A call of simplifyWkt.
Simplify ==
  /\ ~sdone
  /\ out' = simplifyWkt(wkt, tolerance)
  /\ sdone' = TRUE
  /\ UNCHANGED <<wkt, tolerance>>

SimplifyNext == Simplify /\ UNCHANGED <<coordVars, searchVars, parseVars, bboxVars, handlerVars, httpVars>>

(***************************************************************************)
(* part_001, lines 43-59: parseCoordRing on its own                        *)
(***************************************************************************)
\* Bound: the largest number of comma-separated items of a coordinate string.
MaxItems == 3

\* Items: two that parse, the items of other spacing and numerals, items
\* that do not parse, and items with a part that parseFloat reads as an
\* infinity.
ParseItems ==
  { Item(0, <<"0", "1">>, 1, 0),
    Item(1, <<"2", "0">>, 1, 0),
    Item(1, <<"Infinity", "0">>, 1, 0),
    Item(1, <<"1", "-Infinity">>, 1, 0) } \cup OddItems

ParseInit ==
  /\ pin \in UNION {[1..n -> ParseItems] : n \in 0..MaxItems}
  /\ pdone = FALSE
  /\ pout = << >>
  /\ cop = Unused /\ cin = Unused /\ cdone = Unused /\ cout = Unused
  /\ pc = Unused /\ args = Unused /\ mode = Unused /\ calls = Unused
  /\ launchLog = Unused /\ settleLog = Unused /\ result = Unused
  /\ wkt = Unused /\ tolerance = Unused /\ sdone = Unused /\ out = Unused
  /\ bop = Unused /\ bin = Unused /\ bdone = Unused /\ bout = Unused
  /\ hop = Unused /\ hargs = Unused /\ hpc = Unused /\ hbatch = Unused
  /\ hcalls = Unused /\ hlog = Unused /\ hsettled = Unused /\ hresult = Unused
  /\ tpc = Unused /\ tresp = Unused /\ ttimer = Unused /\ tclock = Unused
  /\ tout = Unused /\ treq = Unused

\* A call of parseCoordRing.
Parse ==
  /\ ~pdone
  /\ pout' = parseCoordRing(pin)
  /\ pdone' = TRUE
  /\ UNCHANGED pin

ParseNext == Parse /\ UNCHANGED <<coordVars, searchVars, simpVars, bboxVars, handlerVars, httpVars>>

(***************************************************************************)
(* part_001, lines 111-195: bounding boxes                                 *)
(*                                                                         *)
(* Numbers.  A number v is kept as the integer v * 10^7, so that numbers   *)
(* below 0.000001, which JavaScript writes with an exponent, are in the    *)
(* model.                                                                  *)
(* Text.  A string is a sequence of tokens: a numeral (a longest run of    *)
(* characters that -?\d+\.?\d* matches, with the number it writes), a run  *)
(* of whitespace, a comma, a parenthesis, or a word (a run of other        *)
(* characters).                                                            *)
(***************************************************************************)
\* Bounds: the largest number of boxes of an enumerated list, and of
\* coordinate pairs of an enumerated text.
MaxBoxes == 3
MaxPairs == 3

\* The integer that stands for the number 1.
Scale == 10000000

Numeral(v) == [kind |-> "numeral", v |-> v, w |-> ""]
Blank == [kind |-> "blank", v |-> 0, w |-> ""]
Comma == [kind |-> "comma", v |-> 0, w |-> ""]
LeftParen == [kind |-> "open", v |-> 0, w |-> ""]
RightParen == [kind |-> "close", v |-> 0, w |-> ""]
Word(w) == [kind |-> "word", v |-> 0, w |-> w]

Abs(v) == IF v < 0 THEN -v ELSE v
MathMin(a, b) == IF a < b THEN a ELSE b
MathMax(a, b) == IF a > b THEN a ELSE b

\* An error thrown with `new Error(message)`.
Thrown(message) == [ok |-> FALSE, error |-> "Error", field |-> NoField, message |-> message]

\* `${v}`, the text JavaScript writes for a number: a numeral in decimal
\* notation for 0 and for numbers of magnitude 0.000001 or more, and a
\* one-digit mantissa, the letter e and the exponent -7 for the numbers of
\* the model below that.
NumberToString(v) ==
  IF Abs(v) = Infinity THEN <<Word(IF v < 0 THEN "-Infinity" ELSE "Infinity")>>
  ELSE IF v = 0 \/ Abs(v) >= Scale \div 1000000 THEN <<Numeral(v)>>
  ELSE <<Numeral(v * Scale), Word("e"), Numeral((-7) * Scale)>>

\* The loop over coordPattern.exec (lines 140, 149-151): the pairs matched
\* from token i on.  A match is a numeral, whitespace and a numeral; the
\* search goes on behind a match, or at the next token when there is none.
RECURSIVE MatchesFrom(_, _)
MatchesFrom(text, i) ==
  IF i > Len(text) THEN << >>
  ELSE IF /\ i + 2 <= Len(text)
          /\ text[i].kind = "numeral"
          /\ text[i + 1].kind = "blank"
          /\ text[i + 2].kind = "numeral"
       THEN << <<text[i].v, text[i + 2].v>> >> \o MatchesFrom(text, i + 3)
       ELSE MatchesFrom(text, i + 1)

\* The running minima and maxima (lines 142-145, 153-156) from pair k on.
RECURSIVE FoldPairs(_, _, _)
FoldPairs(pairs, k, acc) ==
  IF k > Len(pairs) THEN acc
  ELSE FoldPairs(pairs, k + 1,
                 [minX |-> MathMin(acc.minX, pairs[k][1]),
                  maxX |-> MathMax(acc.maxX, pairs[k][1]),
                  minY |-> MathMin(acc.minY, pairs[k][2]),
                  maxY |-> MathMax(acc.maxY, pairs[k][2])])

\* extractBoundingBoxFromWkt without the test of matchCount.
ExtractMutNoCount(text) ==
  Returned(FoldPairs(MatchesFrom(text, 1), 1,
                     [minX |-> Infinity, maxX |-> -Infinity,
                      minY |-> Infinity, maxY |-> -Infinity]))

\* extractBoundingBoxFromWkt with maxY folded over the first numbers.
ExtractMutMaxY(text) ==
  LET pairs == MatchesFrom(text, 1)
      box == FoldPairs(pairs, 1, [minX |-> Infinity, maxX |-> -Infinity,
                                  minY |-> Infinity, maxY |-> -Infinity])
  IN  IF Len(pairs) = 0 THEN Thrown("No coordinates found in WKT string")
      ELSE Returned([box EXCEPT !.maxY = box.maxX])

\* extractBoundingBoxFromWkt (lines 138-165)
extractBoundingBoxFromWkt(text) ==
  LET pairs == MatchesFrom(text, 1)
      matchCount == Len(pairs)
      box == FoldPairs(pairs, 1, [minX |-> Infinity, maxX |-> -Infinity,
                                  minY |-> Infinity, maxY |-> -Infinity])
  IN  IF matchCount = 0 THEN Thrown("No coordinates found in WKT string")
      ELSE Returned(box)

\* The callback of reduce (lines 178-183)
ReduceStepMutMinY(combined, box) ==
  [minX |-> MathMin(combined.minX, box.minX),
   maxX |-> MathMax(combined.maxX, box.maxX),
   minY |-> MathMin(box.minY, box.minY),
   maxY |-> MathMax(combined.maxY, box.maxY)]

ReduceStep(combined, box) ==
  [minX |-> MathMin(combined.minX, box.minX),
   maxX |-> MathMax(combined.maxX, box.maxX),
   minY |-> MathMin(combined.minY, box.minY),
   maxY |-> MathMax(combined.maxY, box.maxY)]

\* boxes.reduce(callback) without an initial value, from box k on.
RECURSIVE ReduceFrom(_, _, _)
ReduceFrom(boxes, k, combined) ==
  IF k > Len(boxes) THEN combined
  ELSE ReduceFrom(boxes, k + 1, ReduceStep(combined, boxes[k]))

\* combineBoundingBoxes (lines 173-184)
combineBoundingBoxes(boxes) ==
  IF Len(boxes) = 0 THEN Thrown("Cannot combine empty array of bounding boxes")
  ELSE Returned(ReduceFrom(boxes, 2, boxes[1]))

\* "x y" as the template of line 194 writes it.
PairToString(x, y) == NumberToString(x) \o <<Blank>> \o NumberToString(y)

\* boundingBoxToWkt with the corners in the opposite order.
BoxToWktMutOrder(box) ==
  <<Word("POLYGON"), Blank, LeftParen, LeftParen, Blank>>
    \o PairToString(box.minX, box.minY) \o <<Comma, Blank>>
    \o PairToString(box.minX, box.maxY) \o <<Comma, Blank>>
    \o PairToString(box.maxX, box.maxY) \o <<Comma, Blank>>
    \o PairToString(box.maxX, box.minY) \o <<Comma, Blank>>
    \o PairToString(box.minX, box.minY) \o <<RightParen, RightParen>>

\* boundingBoxToWkt (lines 192-195)
boundingBoxToWkt(box) ==
  <<Word("POLYGON"), Blank, LeftParen, LeftParen, Blank>>
    \o PairToString(box.minX, box.minY) \o <<Comma, Blank>>
    \o PairToString(box.maxX, box.minY) \o <<Comma, Blank>>
    \o PairToString(box.maxX, box.maxY) \o <<Comma, Blank>>
    \o PairToString(box.minX, box.maxY) \o <<Comma, Blank>>
    \o PairToString(box.minX, box.minY) \o <<RightParen, RightParen>>

\* Inputs.  Numbers: -20, -0.0000003, 0, 0.0000002, 0.0000015, 10, 20, 30, 40.
BoxValues ==
  {(-20) * Scale, -3, 0, 2, 15, 10 * Scale, 20 * Scale, 30 * Scale, 40 * Scale}
Box(minX, maxX, minY, maxY) == [minX |-> minX, maxX |-> maxX, minY |-> minY, maxY |-> maxY]
AllBoxes == {Box(a, b, c, d) : a \in BoxValues, b \in BoxValues, c \in BoxValues, d \in BoxValues}
\* A few boxes, the last with its minima above its maxima.
SampleBoxes ==
  { Box(10 * Scale, 30 * Scale, 20 * Scale, 40 * Scale),
    Box(20 * Scale, 40 * Scale, 10 * Scale, 30 * Scale),
    Box((-20) * Scale, 10 * Scale, -3, 15),
    Box(2, 15, (-20) * Scale, 0),
    Box(0, 0, 0, 0),
    Box(30 * Scale, 10 * Scale, 40 * Scale, 20 * Scale) }

\* Texts made of coordinate pairs that are written in decimal notation, the
\* pairs separated by `sep`.
PairValues == {(-20) * Scale, 15, 10 * Scale}
PairLists == UNION {[1..n -> PairValues \X PairValues] : n \in 0..MaxPairs}
RECURSIVE JoinPairs(_, _, _)
JoinPairs(ps, k, sep) ==
  IF k > Len(ps) THEN << >>
  ELSE (IF k = 1 THEN << >> ELSE sep) \o PairToString(ps[k][1], ps[k][2])
         \o JoinPairs(ps, k + 1, sep)
Shapes == {"polygon", "multipolygon", "blanks"}
PairText(shape, ps) ==
  CASE shape = "polygon" ->
         <<Word("POLYGON"), Blank, LeftParen, LeftParen>>
           \o JoinPairs(ps, 1, <<Comma, Blank>>) \o <<RightParen, RightParen>>
    [] shape = "multipolygon" ->
         <<Word("MULTIPOLYGON"), Blank, LeftParen, LeftParen, LeftParen>>
           \o JoinPairs(ps, 1, <<RightParen, RightParen, Comma, Blank, LeftParen, LeftParen>>)
           \o <<RightParen, RightParen, RightParen>>
    [] shape = "blanks" -> JoinPairs(ps, 1, <<Blank>>)

\* Texts without a match of the pattern: "", "POLYGON EMPTY", "5", "1,2".
NoPairTexts ==
  { << >>,
    <<Word("POLYGON"), Blank, Word("EMPTY")>>,
    <<Numeral(5 * Scale)>>,
    <<Numeral(Scale), Comma, Numeral(2 * Scale)>> }
\* Other texts: "1 2 3", "1-2 3", "1 2 3, 4 5 6", "3e-7 20".
OddTexts ==
  { <<Numeral(Scale), Blank, Numeral(2 * Scale), Blank, Numeral(3 * Scale)>>,
    <<Numeral(Scale), Numeral((-2) * Scale), Blank, Numeral(3 * Scale)>>,
    <<Numeral(Scale), Blank, Numeral(2 * Scale), Blank, Numeral(3 * Scale), Comma, Blank,
      Numeral(4 * Scale), Blank, Numeral(5 * Scale), Blank, Numeral(6 * Scale)>>,
    <<Numeral(3 * Scale), Word("e"), Numeral((-7) * Scale), Blank, Numeral(20 * Scale)>> }

BboxInit ==
  /\ \/ /\ bop = "extract"
        /\ bin \in NoPairTexts \cup OddTexts
                     \cup {PairText(shape, ps) : shape \in Shapes, ps \in PairLists}
                     \cup {boundingBoxToWkt(b) : b \in SampleBoxes}
     \/ /\ bop = "combine"
        /\ bin \in UNION {[1..n -> SampleBoxes] : n \in 0..MaxBoxes}
     \/ /\ bop = "toWkt"
        /\ bin \in AllBoxes
  /\ bdone = FALSE
  /\ bout = NoOutcome
  /\ cop = Unused /\ cin = Unused /\ cdone = Unused /\ cout = Unused
  /\ pc = Unused /\ args = Unused /\ mode = Unused /\ calls = Unused
  /\ launchLog = Unused /\ settleLog = Unused /\ result = Unused
  /\ wkt = Unused /\ tolerance = Unused /\ sdone = Unused /\ out = Unused
  /\ pin = Unused /\ pdone = Unused /\ pout = Unused
  /\ hop = Unused /\ hargs = Unused /\ hpc = Unused /\ hbatch = Unused
  /\ hcalls = Unused /\ hlog = Unused /\ hsettled = Unused /\ hresult = Unused
  /\ tpc = Unused /\ tresp = Unused /\ ttimer = Unused /\ tclock = Unused
  /\ tout = Unused /\ treq = Unused

\* A call of extractBoundingBoxFromWkt.
Extract ==
  /\ bop = "extract" /\ ~bdone
  /\ bout' = extractBoundingBoxFromWkt(bin)
  /\ bdone' = TRUE
  /\ UNCHANGED <<bop, bin>>

\* A call of combineBoundingBoxes.
Combine ==
  /\ bop = "combine" /\ ~bdone
  /\ bout' = combineBoundingBoxes(bin)
  /\ bdone' = TRUE
  /\ UNCHANGED <<bop, bin>>

\* A call of boundingBoxToWkt.
ToWkt ==
  /\ bop = "toWkt" /\ ~bdone
  /\ bout' = Returned(boundingBoxToWkt(bin))
  /\ bdone' = TRUE
  /\ UNCHANGED <<bop, bin>>

BboxNext ==
  \/ Extract /\ UNCHANGED <<coordVars, searchVars, simpVars, parseVars, handlerVars, httpVars>>
  \/ Combine /\ UNCHANGED <<coordVars, searchVars, simpVars, parseVars, handlerVars, httpVars>>
  \/ ToWkt /\ UNCHANGED <<coordVars, searchVars, simpVars, parseVars, handlerVars, httpVars>>

(***************************************************************************)
(* src/tools/detail.ts: detailHandler (lines 61-235) and extentHandler     *)
(* (lines 267-315)                                                         *)
(*                                                                         *)
(* Both handlers are the async function given to withErrorHandling.  An    *)
(* upstream call is one call of a client method; it is a promise that is   *)
(* fulfilled or rejected by the environment.  When a call settles, the     *)
(* continuation of the handler that waits for it runs before anything else *)
(* does (promise reactions are microtasks), so the settlement and the      *)
(* handler's run up to its next await, return or throw are one step.       *)
(***************************************************************************)
\* const SOURCES (line 9), in the order of the array
SOURCES == <<"national", "n2000", "ramsar">>

\* const INCLUDE_TYPES (lines 12-22)
INCLUDE_TYPES ==
  {"geometry", "land_cover", "documents", "purposes", "regulations",
   "env_goals", "species", "habitats", "all"}

\* lines 25-27
NATIONAL_ONLY == {"purposes", "regulations", "env_goals"}
N2000_ONLY == {"species", "habitats"}
RAMSAR_INCOMPATIBLE ==
  {"documents", "purposes", "regulations", "env_goals", "species", "habitats"}

\* The message of a ValidationError of validateIncludeForSource: which of
\* the three templates, and the values written into it.
IncludeMessage(template, include, source, available) ==
  [template |-> template, include |-> include, source |-> source,
   available |-> available]

\* validateIncludeForSource (lines 61-81): returns nothing, or throws.
ValidateMutRamsarDocuments(include, source) ==
  IF source = "ramsar" /\ include \in RAMSAR_INCOMPATIBLE \ {"documents"}
  THEN ValidationError(IncludeMessage("not available for Ramsar", include, source,
                                      "geometry, land_cover, all"), NoField)
  ELSE IF source # "national" /\ include \in NATIONAL_ONLY
  THEN ValidationError(IncludeMessage("only national", include, source,
         IF source = "n2000"
         THEN "geometry, land_cover, documents, species, habitats, all"
         ELSE "geometry, land_cover, all"), NoField)
  ELSE IF source # "n2000" /\ include \in N2000_ONLY
  THEN ValidationError(IncludeMessage("only Natura 2000", include, source,
         IF source = "national"
         THEN "geometry, land_cover, documents, purposes, regulations, env_goals, all"
         ELSE "geometry, land_cover, all"), NoField)
  ELSE Returned("undefined")

validateIncludeForSource(include, source) ==
  IF source = "ramsar" /\ include \in RAMSAR_INCOMPATIBLE
  THEN ValidationError(IncludeMessage("not available for Ramsar", include, source,
                                      "geometry, land_cover, all"), NoField)
  ELSE IF source # "national" /\ include \in NATIONAL_ONLY
  THEN ValidationError(IncludeMessage("only national", include, source,
         IF source = "n2000"
         THEN "geometry, land_cover, documents, species, habitats, all"
         ELSE "geometry, land_cover, all"), NoField)
  ELSE IF source # "n2000" /\ include \in N2000_ONLY
  THEN ValidationError(IncludeMessage("only Natura 2000", include, source,
         IF source = "national"
         THEN "geometry, land_cover, documents, purposes, regulations, env_goals, all"
         ELSE "geometry, land_cover, all"), NoField)
  ELSE Returned("undefined")

\* const { id, source, include = 'all' } = args (line 223)
IncludeOfMutGeometry(a) == IF IsDefined(a.include) THEN a.include[1] ELSE "geometry"

IncludeOf(a) == IF IsDefined(a.include) THEN a.include[1] ELSE "all"

\* The name of the base call, <client>.getArea.  The other calls of a
\* detail request are named by the result field they fill: geometry is
\* getAreaWkt, purposes is getAreaPurposes, and so on.
GetArea == "getArea"

\* The Promise.all batches of include 'all', in program order (lines 97-109,
\* 155-161, 203-205).  The third step of fetchN2000Detail is a single await.
BatchesMutOneBatch(source) ==
  CASE source = "national" ->
         << <<"geometry", "purposes", "land_cover", "regulations", "env_goals", "documents">> >>
    [] source = "n2000" ->
         << <<"species", "habitats", "land_cover", "geometry", "documents">> >>
    [] source = "ramsar" -> << <<"geometry", "land_cover">> >>

Batches(source) ==
  CASE source = "national" ->
         << <<"geometry", "purposes">>, <<"land_cover", "regulations">>,
            <<"env_goals", "documents">> >>
    [] source = "n2000" ->
         << <<"species", "habitats">>, <<"land_cover", "geometry">>, <<"documents">> >>
    [] source = "ramsar" -> << <<"geometry", "land_cover">> >>

\* The cases of the switch on `include` (lines 119-138, 170-186, 211-218).
SwitchCases(source) ==
  CASE source = "national" ->
         {"geometry", "purposes", "land_cover", "regulations", "env_goals", "documents"}
    [] source = "n2000" -> {"species", "habitats", "land_cover", "geometry", "documents"}
    [] source = "ramsar" -> {"geometry", "land_cover"}

\* The awaits that follow the base call, each with the calls it creates.
Plan(source, include) ==
  IF include = "all" THEN Batches(source)
  ELSE IF include \in SwitchCases(source) THEN << <<include>> >>
  ELSE << >>

\* The record getArea is fulfilled with (the fields the handler reads).
AreaRecord(source) ==
  CASE source = "national" ->
         [name |-> "Tyresta", type |-> "Nationalpark", county |-> "Stockholms lan",
          municipalities |-> "Haninge, Tyreso", area_ha |-> 2000]
    [] source = "n2000" ->
         [kod |-> "SE0110001", name |-> "Tyresta", area_type |-> "SCI",
          county |-> "Stockholms lan", municipalities |-> "Haninge, Tyreso",
          area_ha |-> 2000]
    [] source = "ramsar" ->
         [id |-> "15", name |-> "Hornborgasjon", protection_type |-> "Ramsar",
          county |-> "Vastra Gotalands lan", municipalities |-> "Falkoping",
          total_area_ha |-> 6370]

\* The ids a detail request is made with: the id of the record above, and
\* for a Natura 2000 area the same code in lower case.
DetailIds(source) ==
  CASE source = "national" -> {"2000019"}
    [] source = "n2000" -> {"SE0110001", "se0110001"}
    [] source = "ramsar" -> {"15"}

\* `result` before the components are added (lines 86-95, 144-153, 192-201).
BaseResultMutArgId(source, id, area) ==
  CASE source = "national" ->
         [id |-> id, source |-> "national", name |-> area.name, type |-> area.type,
          county |-> area.county, municipalities |-> area.municipalities,
          area_ha |-> area.area_ha, coordinate_system |-> "EPSG:4326 (WGS84)"]
    [] source = "n2000" ->
         [id |-> id, source |-> "n2000", name |-> area.name,
          area_type |-> area.area_type, county |-> area.county,
          municipalities |-> area.municipalities, area_ha |-> area.area_ha,
          coordinate_system |-> "EPSG:4326 (WGS84)"]
    [] source = "ramsar" ->
         [id |-> id, source |-> "ramsar", name |-> area.name,
          protection_type |-> area.protection_type, county |-> area.county,
          municipalities |-> area.municipalities, total_area_ha |-> area.total_area_ha,
          coordinate_system |-> "EPSG:4326 (WGS84)"]

BaseResult(source, id, area) ==
  CASE source = "national" ->
         [id |-> id, source |-> "national", name |-> area.name, type |-> area.type,
          county |-> area.county, municipalities |-> area.municipalities,
          area_ha |-> area.area_ha, coordinate_system |-> "EPSG:4326 (WGS84)"]
    [] source = "n2000" ->
         [id |-> area.kod, source |-> "n2000", name |-> area.name,
          area_type |-> area.area_type, county |-> area.county,
          municipalities |-> area.municipalities, area_ha |-> area.area_ha,
          coordinate_system |-> "EPSG:4326 (WGS84)"]
    [] source = "ramsar" ->
         [id |-> area.id, source |-> "ramsar", name |-> area.name,
          protection_type |-> area.protection_type, county |-> area.county,
          municipalities |-> area.municipalities, total_area_ha |-> area.total_area_ha,
          coordinate_system |-> "EPSG:4326 (WGS84)"]

\* The calls of a plan, in program order.
RECURSIVE PlanCalls(_)
PlanCalls(plan) == IF plan = << >> THEN << >> ELSE plan[1] \o PlanCalls(Tail(plan))

\* The object fetch<Source>Detail returns: the base fields and one field
\* for every component call, holding the value the call was fulfilled with.
DetailResultMutPartial(source, id, include, c) ==
  BaseResult(source, id, c[GetArea].value)

DetailResult(source, id, include, c) ==
  Spread(BaseResult(source, id, c[GetArea].value),
         [f \in Range(PlanCalls(Plan(source, include))) |-> c[f].value])

\* ---- extentHandler
\* The largest total number of ids (line 278).
MaxTotalIds == 100

\* args.<source>Ids ?? []
OrEmpty(o) == IF IsDefined(o) THEN o[1] ELSE << >>

\* The three id arrays after the defaults (lines 268-270), by source.
IdsOf(a) ==
  [s \in Sources |->
     CASE s = "national" -> OrEmpty(a.nationalIds)
       [] s = "n2000" -> OrEmpty(a.n2000Ids)
       [] s = "ramsar" -> OrEmpty(a.ramsarIds)]

\* line 272
TotalCount(a) ==
  Len(IdsOf(a)["national"]) + Len(IdsOf(a)["n2000"]) + Len(IdsOf(a)["ramsar"])

\* The message of a ValidationError of extentHandler.
ExtentMessage(template, count) == [template |-> template, count |-> count]

\* The two checks of extentHandler (lines 274-280).
ExtentCheckMutAtLeast(a) ==
  IF TotalCount(a) = 0
  THEN ValidationError(ExtentMessage("At least one ID array must be non-empty", 0), NoField)
  ELSE IF TotalCount(a) >= MaxTotalIds
  THEN ValidationError(ExtentMessage("Too many IDs", TotalCount(a)), NoField)
  ELSE Returned("undefined")

ExtentCheck(a) ==
  IF TotalCount(a) = 0
  THEN ValidationError(ExtentMessage("At least one ID array must be non-empty", 0), NoField)
  ELSE IF TotalCount(a) > MaxTotalIds
  THEN ValidationError(ExtentMessage("Too many IDs", TotalCount(a)), NoField)
  ELSE Returned("undefined")

\* The sources an extent call is created for, in the order of the pushes
\* (lines 283-286).
ExtentSourcesMutAll(a) == SOURCES

ExtentSources(a) == SelectSeq(SOURCES, LAMBDA s : Len(IdsOf(a)[s]) > 0)

\* extentWkts.map(extractBoundingBoxFromWkt), as far as it gets: the boxes,
\* or the Error of the first text that has no coordinates.
RECURSIVE MapExtract(_)
MapExtract(texts) ==
  IF texts = << >> THEN Returned(<< >>)
  ELSE LET first == extractBoundingBoxFromWkt(texts[1])
       IN  IF ~first.ok THEN first
           ELSE LET others == MapExtract(Tail(texts))
                IN  IF ~others.ok THEN others
                    ELSE Returned(<<first.value>> \o others.value)

\* extentHandler after the await (lines 290-314): what it returns or throws,
\* given the texts the extent calls were fulfilled with.
ExtentResultMutFirst(a, extentWkts) ==
  LET reply(extent) ==
        Returned([national_ids |-> IdsOf(a)["national"], n2000_ids |-> IdsOf(a)["n2000"],
                  ramsar_ids |-> IdsOf(a)["ramsar"], total_areas |-> TotalCount(a),
                  extent |-> extent, coordinate_system |-> "EPSG:4326 (WGS84)"])
  IN  IF Len(extentWkts) = 1 THEN reply(extentWkts[1])
      ELSE LET boundingBoxes == MapExtract(extentWkts)
           IN  IF ~boundingBoxes.ok THEN boundingBoxes
               ELSE reply(boundingBoxToWkt(boundingBoxes.value[1]))

ExtentResult(a, extentWkts) ==
  LET reply(extent) ==
        Returned([national_ids |-> IdsOf(a)["national"], n2000_ids |-> IdsOf(a)["n2000"],
                  ramsar_ids |-> IdsOf(a)["ramsar"], total_areas |-> TotalCount(a),
                  extent |-> extent, coordinate_system |-> "EPSG:4326 (WGS84)"])
  IN  IF Len(extentWkts) = 1 THEN reply(extentWkts[1])
      ELSE LET boundingBoxes == MapExtract(extentWkts)
           IN  IF ~boundingBoxes.ok THEN boundingBoxes
               ELSE LET combined == combineBoundingBoxes(boundingBoxes.value)
                    IN  IF ~combined.ok THEN combined
                        ELSE reply(boundingBoxToWkt(combined.value))

\* ---- the upstream calls
\* Every call a handler can create: the base call and the component calls
\* of a detail request, and the extent call of each source.
HandlerCalls == {GetArea} \cup (INCLUDE_TYPES \ {"all"}) \cup Sources

\* The error a call is rejected with.  `call` stands for the identity of
\* the error object: two calls never fail with the same object.
UpstreamError(name, code, call) == [name |-> name, code |-> code, call |-> call]
UpstreamErrors(call) ==
  {UpstreamError("UpstreamApiError", 404, call), UpstreamError("UpstreamApiError", 0, call),
   UpstreamError("Error", 0, call)}

\* A handler that failed because the promise it awaited was rejected: the
\* rejection reason is what the handler throws.
RethrownMutWrap(reason) ==
  [ok |-> FALSE, error |-> "rejection", reason |-> UpstreamError("Error", 0, reason.call)]

Rethrown(reason) == [ok |-> FALSE, error |-> "rejection", reason |-> reason]

\* The texts an extent call can be fulfilled with: "POLYGON ((10 20, 30 20,
\* 30 40, 10 40, 10 20))", two more boxes, a multipolygon of three pairs,
\* and "POLYGON EMPTY".
ExtentTexts ==
  { boundingBoxToWkt(Box(10 * Scale, 30 * Scale, 20 * Scale, 40 * Scale)),
    boundingBoxToWkt(Box(20 * Scale, 40 * Scale, 10 * Scale, 30 * Scale)),
    boundingBoxToWkt(Box((-20) * Scale, 15, (-20) * Scale, 10 * Scale)),
    PairText("multipolygon", << <<15, 10 * Scale>>, <<10 * Scale, 15>>,
                                <<(-20) * Scale, 15>> >>),
    <<Word("POLYGON"), Blank, Word("EMPTY")>> }

\* The values a call can be fulfilled with.
HandlerValues(op, a, call) ==
  IF op = "extent" THEN ExtentTexts
  ELSE IF call = GetArea THEN {AreaRecord(a.source)}
  ELSE {<<call, "first answer">>, <<call, "second answer">>}

\* An array of n ids of a source.
Ids(source, n) == [k \in 1..n |-> <<source, k>>]

\* The promises a handler is waiting for at its current await.
Awaited ==
  CASE hpc = "base" -> <<GetArea>>
    [] hpc = "batch" -> Plan(hargs.source, IncludeOf(hargs))[hbatch]
    [] hpc = "extent" -> ExtentSources(hargs)
    [] OTHER -> << >>

\* Promise.all([...]) of newly created calls: every call of the list is
\* created before the handler waits.
LaunchBatch(c, batch) ==
  [k \in HandlerCalls |-> IF k \in Range(batch) THEN PendingCall ELSE c[k]]

\* The handler's continuation, run when a call it awaits has settled and
\* the promises are c: it throws the reason of a rejected call as soon as
\* there is one, goes on when every awaited call is fulfilled, and keeps
\* waiting otherwise.  A call that settles when the handler does not wait
\* for it changes nothing else.
Continue(c, settled) ==
  IF settled \notin Range(Awaited)
  THEN /\ hcalls' = c
       /\ UNCHANGED <<hpc, hbatch, hlog, hresult>>
  ELSE IF c[settled].status = "rejected"
  THEN /\ hcalls' = c
       /\ hpc' = "threw"
       /\ hresult' = Rethrown(c[settled].reason)
       /\ UNCHANGED <<hbatch, hlog>>
  ELSE IF \E k \in Range(Awaited) : c[k].status # "fulfilled"
  THEN /\ hcalls' = c
       /\ UNCHANGED <<hpc, hbatch, hlog, hresult>>
  ELSE IF hpc = "extent"
  THEN /\ hcalls' = c
       /\ hresult' = ExtentResult(hargs, [i \in 1..Len(Awaited) |-> c[Awaited[i]].value])
       /\ hpc' = IF hresult'.ok THEN "done" ELSE "threw"
       /\ UNCHANGED <<hbatch, hlog>>
  ELSE LET plan == Plan(hargs.source, IncludeOf(hargs))
       IN  IF hbatch < Len(plan)
           THEN /\ hcalls' = LaunchBatch(c, plan[hbatch + 1])
                /\ hlog' = hlog \o plan[hbatch + 1]
                /\ hbatch' = hbatch + 1
                /\ hpc' = "batch"
                /\ UNCHANGED hresult
           ELSE /\ hcalls' = c
                /\ hresult' = Returned(DetailResult(hargs.source, hargs.id,
                                                    IncludeOf(hargs), c))
                /\ hpc' = "done"
                /\ UNCHANGED <<hbatch, hlog>>

\* Requests.
DetailRequests ==
  UNION {{[id |-> id, source |-> s, include |-> i] :
            id \in DetailIds(s), i \in {Absent} \cup {Some(t) : t \in INCLUDE_TYPES}} :
         s \in Sources}

ExtentRequests ==
  [nationalIds : {Absent, Some(Ids("national", 0)), Some(Ids("national", 1)),
                  Some(Ids("national", MaxTotalIds \div 2)),
                  Some(Ids("national", MaxTotalIds)),
                  Some(Ids("national", MaxTotalIds + 1))},
   n2000Ids : {Absent, Some(Ids("n2000", 0)), Some(Ids("n2000", 2)),
               Some(Ids("n2000", MaxTotalIds \div 2))},
   ramsarIds : {Absent, Some(Ids("ramsar", 1)),
                Some(Ids("ramsar", MaxTotalIds \div 2 - 1))}]

HandlerInit ==
  /\ \/ hop = "detail" /\ hargs \in DetailRequests
     \/ hop = "extent" /\ hargs \in ExtentRequests
  /\ hpc = "start"
  /\ hbatch = 0
  /\ hcalls = [k \in HandlerCalls |-> NoCall]
  /\ hlog = << >>
  /\ hsettled = << >>
  /\ hresult = NoOutcome
  /\ cop = Unused /\ cin = Unused /\ cdone = Unused /\ cout = Unused
  /\ pc = Unused /\ args = Unused /\ mode = Unused /\ calls = Unused
  /\ launchLog = Unused /\ settleLog = Unused /\ result = Unused
  /\ wkt = Unused /\ tolerance = Unused /\ sdone = Unused /\ out = Unused
  /\ pin = Unused /\ pdone = Unused /\ pout = Unused
  /\ bop = Unused /\ bin = Unused /\ bdone = Unused /\ bout = Unused
  /\ tpc = Unused /\ tresp = Unused /\ ttimer = Unused /\ tclock = Unused
  /\ tout = Unused /\ treq = Unused

\* detailHandler is called and validateIncludeForSource throws.
DetailReject ==
  /\ hop = "detail" /\ hpc = "start"
  /\ ~validateIncludeForSource(IncludeOf(hargs), hargs.source).ok
  /\ hresult' = validateIncludeForSource(IncludeOf(hargs), hargs.source)
  /\ hpc' = "threw"
  /\ UNCHANGED <<hop, hargs, hbatch, hcalls, hlog, hsettled>>

\* detailHandler is called, the include type is valid for the source, and
\* fetch<Source>Detail runs to its first await: getArea is called.
DetailLaunch ==
  /\ hop = "detail" /\ hpc = "start"
  /\ validateIncludeForSource(IncludeOf(hargs), hargs.source).ok
  /\ hcalls' = LaunchBatch(hcalls, <<GetArea>>)
  /\ hlog' = <<GetArea>>
  /\ hpc' = "base"
  /\ UNCHANGED <<hop, hargs, hbatch, hsettled, hresult>>

\* extentHandler is called and throws a ValidationError.
ExtentReject ==
  /\ hop = "extent" /\ hpc = "start"
  /\ ~ExtentCheck(hargs).ok
  /\ hresult' = ExtentCheck(hargs)
  /\ hpc' = "threw"
  /\ UNCHANGED <<hop, hargs, hbatch, hcalls, hlog, hsettled>>

\* extentHandler is called, accepts the request and runs to its await: one
\* extent call is created for every source with ids.
ExtentLaunch ==
  /\ hop = "extent" /\ hpc = "start"
  /\ ExtentCheck(hargs).ok
  /\ hcalls' = LaunchBatch(hcalls, ExtentSources(hargs))
  /\ hlog' = ExtentSources(hargs)
  /\ hpc' = "extent"
  /\ UNCHANGED <<hop, hargs, hbatch, hsettled, hresult>>

\* An upstream call is fulfilled, and the handler goes on if it can.
CallFulfilled(k) ==
  /\ hcalls[k].status = "pending"
  /\ \E v \in HandlerValues(hop, hargs, k) :
       Continue([hcalls EXCEPT ![k] = Fulfilled(v)], k)
  /\ hsettled' = Append(hsettled, k)
  /\ UNCHANGED <<hop, hargs>>

\* An upstream call is rejected, and the handler that waits for it throws.
CallRejected(k) ==
  /\ hcalls[k].status = "pending"
  /\ \E e \in UpstreamErrors(k) :
       Continue([hcalls EXCEPT ![k] = Rejected(e)], k)
  /\ hsettled' = Append(hsettled, k)
  /\ UNCHANGED <<hop, hargs>>

HandlerNext ==
  \/ DetailReject /\ UNCHANGED <<coordVars, searchVars, simpVars, parseVars, bboxVars, httpVars>>
  \/ DetailLaunch /\ UNCHANGED <<coordVars, searchVars, simpVars, parseVars, bboxVars, httpVars>>
  \/ ExtentReject /\ UNCHANGED <<coordVars, searchVars, simpVars, parseVars, bboxVars, httpVars>>
  \/ ExtentLaunch /\ UNCHANGED <<coordVars, searchVars, simpVars, parseVars, bboxVars, httpVars>>
  \/ \E k \in HandlerCalls :
       CallFulfilled(k) /\ UNCHANGED <<coordVars, searchVars, simpVars, parseVars, bboxVars, httpVars>>
  \/ \E k \in HandlerCalls :
       CallRejected(k) /\ UNCHANGED <<coordVars, searchVars, simpVars, parseVars, bboxVars, httpVars>>

(***************************************************************************)
(* src/lib/http-client.ts: request (lines 15-91)                           *)
(*                                                                         *)
(* One call of request.  The server, the network and the clock are the     *)
(* environment: fetch resolves with a response or rejects, the body is     *)
(* delivered or not, and the timeout elapses at some moment of the call.   *)
(***************************************************************************)
\* new UpstreamApiError(message, code, baseUrl)
UpstreamApiError(message, code, baseUrl) ==
  [ok |-> FALSE, error |-> "UpstreamApiError", message |-> message,
   code |-> code, baseUrl |-> baseUrl]

\* The base URLs of the clients (wfs-client.ts, lines 7, 12), one of them
\* written with a slash at its end, and paths request is called with
\* (wfs-client.ts, lines 39, 184, 201).  new URL (line 27) accepts all of
\* them.
BaseUrls ==
  {"https://geodata.naturvardsverket.se/naturvardsregistret/wfs",
   "https://geodata.naturvardsverket.se/n2000/wfs/"}
Paths == {"", "/omrade/nolinks", "omrade/2000019/wkt"}

\* The responses of a server: status and content-type header (null when
\* the header is missing).
Statuses == {200, 204, 404, 500}
ContentTypes ==
  {Absent, Some("text/plain"), Some("text/plain; charset=utf-8"),
   Some("application/json"), Some("text/xml; charset=UTF-8"),
   Some("application/xml"), Some("text/html")}

\* response.ok
ResponseOk(status) == status >= 200 /\ status <= 299

\* contentType?.includes(part), for the content types above
Includes(contentType, part) ==
  /\ IsDefined(contentType)
  /\ contentType[1] \in
       CASE part = "text/plain" -> {"text/plain", "text/plain; charset=utf-8"}
         [] part = "text/xml" -> {"text/xml; charset=UTF-8"}
         [] part = "application/xml" -> {"application/xml"}

\* The bodies of a response, and what JSON.parse makes of them: a value,
\* or a SyntaxError.
Bodies ==
  {"", "POLYGON ((10 20, 30 20, 30 40, 10 40, 10 20))",
   "{\"id\":\"2000019\",\"name\":\"Tyresta\"}", "[]",
   "<ServiceExceptionReport/>"}
JsonParse(body) ==
  CASE body = "{\"id\":\"2000019\",\"name\":\"Tyresta\"}" ->
         Returned([id |-> "2000019", name |-> "Tyresta"])
    [] body = "[]" -> Returned(<< >>)
    [] OTHER -> [ok |-> FALSE, error |-> "SyntaxError"]

\* A response whose body has not been read.
Response(status, contentType) ==
  [status |-> status, contentType |-> contentType, body |-> Absent]
NoResponse == [status |-> 0, contentType |-> Absent, body |-> Absent]

\* The message of the error request throws for a response that is not
\* 2xx (lines 53-56).  In this and the other messages the dash of the
\* source's texts (U+2014) is written "-".
StatusMessage(status) ==
  IF status >= 500
  THEN "The data service returned an error (HTTP " \o ToString(status)
         \o "). This is usually temporary - try again."
  ELSE "The data service rejected the request (HTTP " \o ToString(status)
         \o "). The query parameters may be invalid."

\* The catch block (lines 77-90), for an error that is not an
\* UpstreamApiError: a timeout for an AbortError, a connection failure for
\* anything else.
CaughtMutRethrow(errorName, baseUrl) ==
  IF errorName = "AbortError" THEN UpstreamApiError("The request timed out. The data service may be slow - try again or use a smaller search area.", 0, baseUrl)
  ELSE [ok |-> FALSE, error |-> errorName, message |-> "Could not connect to the data service. This is usually temporary - try again.",
        code |-> 0, baseUrl |-> baseUrl]

Caught(errorName, baseUrl) ==
  IF errorName = "AbortError" THEN UpstreamApiError("The request timed out. The data service may be slow - try again or use a smaller search area.", 0, baseUrl)
  ELSE UpstreamApiError("Could not connect to the data service. This is usually temporary - try again.", 0, baseUrl)

\* What request does with a response before it reads the body (lines
\* 52-76): it throws, or it reads the body as text or as JSON.
OnResponseMutXml(status, contentType, baseUrl) ==
  IF ~ResponseOk(status)
  THEN [read |-> "none", outcome |-> UpstreamApiError(StatusMessage(status), status, baseUrl)]
  ELSE IF Includes(contentType, "text/plain")
  THEN [read |-> "text", outcome |-> NoOutcome]
  ELSE [read |-> "json", outcome |-> NoOutcome]

OnResponse(status, contentType, baseUrl) ==
  IF ~ResponseOk(status)
  THEN [read |-> "none", outcome |-> UpstreamApiError(StatusMessage(status), status, baseUrl)]
  ELSE IF Includes(contentType, "text/plain")
  THEN [read |-> "text", outcome |-> NoOutcome]
  ELSE IF Includes(contentType, "text/xml") \/ Includes(contentType, "application/xml")
  THEN [read |-> "none", outcome |-> UpstreamApiError("The data service returned an unexpected error response. Try again or use different parameters.",
                                              status, baseUrl)]
  ELSE [read |-> "json", outcome |-> NoOutcome]

\* What request returns or throws once the body has arrived (lines 64, 76).
OnBodyMutText(read, body, baseUrl) == Returned(body)

OnBody(read, body, baseUrl) ==
  IF read = "text" THEN Returned(body)
  ELSE IF JsonParse(body).ok THEN JsonParse(body)
  ELSE Caught(JsonParse(body).error, baseUrl)

\* clearTimeout(timeoutId): a timer that has fired stays fired.
ClearTimeoutMutKeep(timer) == timer

ClearTimeout(timer) == IF timer = "armed" THEN "cleared" ELSE timer

HttpInit ==
  /\ treq \in [baseUrl : BaseUrls, path : Paths]
  /\ tpc = "start"
  /\ tresp = NoResponse
  /\ ttimer = "unset"
  /\ tclock = "running"
  /\ tout = NoOutcome
  /\ cop = Unused /\ cin = Unused /\ cdone = Unused /\ cout = Unused
  /\ pc = Unused /\ args = Unused /\ mode = Unused /\ calls = Unused
  /\ launchLog = Unused /\ settleLog = Unused /\ result = Unused
  /\ wkt = Unused /\ tolerance = Unused /\ sdone = Unused /\ out = Unused
  /\ pin = Unused /\ pdone = Unused /\ pout = Unused
  /\ bop = Unused /\ bin = Unused /\ bdone = Unused /\ bout = Unused
  /\ hop = Unused /\ hargs = Unused /\ hpc = Unused /\ hbatch = Unused
  /\ hcalls = Unused /\ hlog = Unused /\ hsettled = Unused /\ hresult = Unused

\* request is called and runs to its first await (lines 23-48): the URL is
\* built, the timer is set and fetch is called.
StartRequest ==
  /\ tpc = "start"
  /\ ttimer' = "armed"
  /\ tpc' = "fetch"
  /\ UNCHANGED <<treq, tresp, tclock, tout>>

\* fetch resolves with a response (lines 48-76): the timer is cleared, and
\* request throws or starts to read the body.
FetchResolves ==
  /\ tpc = "fetch"
  /\ \E status \in Statuses, contentType \in ContentTypes :
       LET next == OnResponse(status, contentType, treq.baseUrl)
       IN  /\ tresp' = Response(status, contentType)
           /\ IF next.read = "none"
              THEN tpc' = "threw" /\ tout' = next.outcome
              ELSE tpc' = "body" /\ tout' = tout
  /\ ttimer' = ClearTimeout(ttimer)
  /\ UNCHANGED <<treq, tclock>>

\* fetch rejects because the connection failed (lines 77-90).
FetchFails ==
  /\ tpc = "fetch"
  /\ tout' = Caught("TypeError", treq.baseUrl)
  /\ ttimer' = ClearTimeout(ttimer)
  /\ tpc' = "threw"
  /\ UNCHANGED <<treq, tresp, tclock>>

\* The timeout elapses while the call has not settled.  A timer that is
\* still armed fires: its callback aborts the controller (line 37), fetch
\* rejects with an AbortError and the catch block runs.  A timer that was
\* cleared does nothing.
TimeoutElapses ==
  /\ tpc \in {"fetch", "body"}
  /\ tclock = "running"
  /\ tclock' = "elapsed"
  /\ IF ttimer = "armed"
     THEN /\ ttimer' = "fired"
          /\ tpc' = "threw"
          /\ tout' = Caught("AbortError", treq.baseUrl)
     ELSE UNCHANGED <<ttimer, tpc, tout>>
  /\ UNCHANGED <<treq, tresp>>

\* The body arrives; response.text() or response.json() settles and
\* request returns or throws (lines 64, 76, 77-90).
BodyArrives ==
  /\ tpc = "body"
  /\ \E body \in Bodies :
       LET read == OnResponse(tresp.status, tresp.contentType, treq.baseUrl).read
           outcome == OnBody(read, body, treq.baseUrl)
       IN  /\ tresp' = [tresp EXCEPT !.body = Some(body)]
           /\ tout' = outcome
           /\ tpc' = IF outcome.ok THEN "done" ELSE "threw"
  /\ ttimer' = ClearTimeout(ttimer)
  /\ UNCHANGED <<treq, tclock>>

\* The connection breaks while the body is read (lines 77-90).
BodyFails ==
  /\ tpc = "body"
  /\ tout' = Caught("TypeError", treq.baseUrl)
  /\ ttimer' = ClearTimeout(ttimer)
  /\ tpc' = "threw"
  /\ UNCHANGED <<treq, tresp, tclock>>

HttpNext ==
  \/ StartRequest /\ UNCHANGED <<coordVars, searchVars, simpVars, parseVars, bboxVars, handlerVars>>
  \/ FetchResolves /\ UNCHANGED <<coordVars, searchVars, simpVars, parseVars, bboxVars, handlerVars>>
  \/ FetchFails /\ UNCHANGED <<coordVars, searchVars, simpVars, parseVars, bboxVars, handlerVars>>
  \/ TimeoutElapses /\ UNCHANGED <<coordVars, searchVars, simpVars, parseVars, bboxVars, handlerVars>>
  \/ BodyArrives /\ UNCHANGED <<coordVars, searchVars, simpVars, parseVars, bboxVars, handlerVars>>
  \/ BodyFails /\ UNCHANGED <<coordVars, searchVars, simpVars, parseVars, bboxVars, handlerVars>>

SpecCoord == CoordInit /\ [][CoordNext]_vars

SpecSearch == SearchInit /\ [][SearchNext]_vars

SpecSimplify == SimplifyInit /\ [][SimplifyNext]_vars

SpecParse == ParseInit /\ [][ParseNext]_vars

SpecBbox == BboxInit /\ [][BboxNext]_vars

SpecHandlers == HandlerInit /\ [][HandlerNext]_vars

SpecHttp == HttpInit /\ [][HttpNext]_vars

(***************************************************************************)
(* Properties                                                              *)
(***************************************************************************)
\* The sources a mode is specified to query.
SpecifiedSources(m) == IF m = "bbox" THEN {"national", "n2000"} ELSE Sources

\* The merged record a source's record is specified to become.
SpecifiedRecord(m, source, rec) ==
  IF m = "kommunlan" /\ source = "n2000"
  THEN [source |-> source, id |-> rec.kod, name |-> rec.name]
  ELSE [source |-> source, id |-> rec.id, name |-> rec.name]

EntriesOf(q, source) == {i \in DOMAIN q : q[i].source = source}
OnlySource(q, source) == SelectSeq(q, LAMBDA e : e.source = source)

\* C1 (aggregation isolation).  Whatever subset of the upstream calls fails,
\* all of them included, the search that launched them does not throw: it
\* returns a result whose merged records are exactly the records of the
\* sources that succeeded, and whose errors list holds exactly one entry for
\* every source that failed and none for a source that succeeded.
C1_AggregationIsolation ==
  /\ (pc = "threw" => launchLog = << >>)
  /\ (pc = "done" =>
        /\ result.ok
        /\ \A s \in SpecifiedSources(mode) :
             IF calls[s].status = "rejected"
             THEN /\ Cardinality(EntriesOf(result.value.errors, s)) = 1
                  /\ EntriesOf(result.value.areas, s) = {}
             ELSE /\ calls[s].status = "fulfilled"
                  /\ EntriesOf(result.value.errors, s) = {}
                  /\ OnlySource(result.value.areas, s)
                       = [i \in 1..Len(calls[s].value) |->
                            SpecifiedRecord(mode, s, calls[s].value[i])]
        /\ \A i \in DOMAIN result.value.areas :
             result.value.areas[i].source \in SpecifiedSources(mode)
        /\ \A i \in DOMAIN result.value.errors :
             result.value.errors[i].source \in SpecifiedSources(mode))

\* C1 witness: of three sources the second fails and the others return records.
C1_Witness ==
  /\ pc = "done" /\ mode = "kommunlan"
  /\ calls["n2000"].status = "rejected"
  /\ calls["national"].status = "fulfilled" /\ Len(calls["national"].value) = 2
  /\ calls["ramsar"].status = "fulfilled" /\ Len(calls["ramsar"].value) = 1
  /\ Len(result.value.areas) = 3
  /\ Len(result.value.errors) = 1

\* C2 (fan-out and join).  Every applicable call has been launched when the
\* handler starts to wait, and the launch happens while no call has an
\* outcome; the settling of one call changes no other call, a settled call
\* keeps its outcome; the result exists only once every launched call has
\* settled.
C2_StateOrder ==
  /\ (pc \in {"await", "done"} =>
        \A s \in SpecifiedSources(mode) : calls[s].status # "none")
  /\ (pc = "done" =>
        /\ \A s \in SpecifiedSources(mode) : calls[s].status \in {"fulfilled", "rejected"}
        /\ Len(settleLog) = Cardinality(SpecifiedSources(mode)))
  /\ (pc \in {"start", "await"} => ~result.ok /\ result.error = "none")

C2_StepOrder ==
  /\ \A s \in Sources :
       (calls[s].status = "none" /\ calls'[s].status # "none")
          => /\ \A t \in Sources : calls[t].status = "none"
             /\ calls'[s].status = "pending"
  /\ \A s \in Sources :
       (calls[s].status = "pending" /\ calls'[s].status # "pending")
          => /\ calls'[s].status \in {"fulfilled", "rejected"}
             /\ \A t \in Sources \ {s} : calls'[t] = calls[t]
  /\ \A s \in Sources :
       calls[s].status \in {"fulfilled", "rejected"} => calls'[s] = calls[s]

C2_FanOutJoin == [](C2_StateOrder) /\ [][C2_StepOrder]_vars

\* C2 witness: the calls complete in the reverse of their launch order, one
\* of them by failing, and the result is produced after the last.
C2_Witness ==
  /\ pc = "done" /\ mode = "kommunlan"
  /\ settleLog = <<"ramsar", "n2000", "national">>
  /\ calls["ramsar"].status = "rejected"
  /\ calls["national"].status = "fulfilled"
  /\ calls["n2000"].status = "fulfilled"

\* The source and the upstream record the i-th merged record comes from,
\* counted along the calls in array order.
FulfilledLen(s) == IF calls[s].status = "fulfilled" THEN Len(calls[s].value) ELSE 0
OriginSource(i) ==
  IF i <= FulfilledLen("national") THEN "national"
  ELSE IF i <= FulfilledLen("national") + FulfilledLen("n2000") THEN "n2000"
  ELSE "ramsar"
OriginRecord(i) ==
  IF i <= FulfilledLen("national") THEN calls["national"].value[i]
  ELSE IF i <= FulfilledLen("national") + FulfilledLen("n2000")
  THEN calls["n2000"].value[i - FulfilledLen("national")]
  ELSE calls["ramsar"].value[i - FulfilledLen("national") - FulfilledLen("n2000")]

\* C3 (tagging).  Every merged record carries the source whose call returned
\* it and an `id`; a Natura 2000 record of a kommun/lan search has its `kod`
\* as `id` and no `kod` field any more; every other field is carried over.
C3_SourceTagAndId ==
  pc = "done" =>
    \A i \in DOMAIN result.value.areas :
      LET a == result.value.areas[i]
          r == OriginRecord(i)
      IN  /\ "source" \in DOMAIN a /\ a["source"] = OriginSource(i)
          /\ "id" \in DOMAIN a
          /\ IF mode = "kommunlan" /\ OriginSource(i) = "n2000"
             THEN /\ a["id"] = r["kod"]
                  /\ "kod" \notin DOMAIN a
                  /\ DOMAIN a = ((DOMAIN r) \ {"kod"}) \cup {"source", "id"}
                  /\ \A f \in (DOMAIN r) \ {"kod"} : a[f] = r[f]
             ELSE /\ DOMAIN a = (DOMAIN r) \cup {"source"}
                  /\ \A f \in DOMAIN r : a[f] = r[f]

\* C3 witness: a kommun/lan search that merged a Natura 2000 record.
C3_Witness ==
  /\ pc = "done" /\ mode = "kommunlan"
  /\ calls["national"].status = "fulfilled" /\ Len(calls["national"].value) = 1
  /\ calls["n2000"].status = "fulfilled"
  /\ calls["n2000"].value = <<[kod |-> "SE0110002", name |-> "Angso"]>>
  /\ result.value.areas[2] = [source |-> "n2000", id |-> "SE0110002", name |-> "Angso"]

\* C4 (sources by mode).  A kommun/lan search calls each of the three sources
\* exactly once; a bounding-box search calls national and n2000 exactly once
\* each, never ramsar, and its result holds nothing of source ramsar.
C4_SourcesByMode ==
  /\ (pc = "start" => launchLog = << >>)
  /\ (pc \in {"await", "done"} =>
        /\ mode \in {"bbox", "kommunlan"}
        /\ \A s \in SpecifiedSources(mode) : Cardinality(EntriesOf(launchLog, s)) = 1
        /\ \A s \in Sources \ SpecifiedSources(mode) :
             EntriesOf(launchLog, s) = {} /\ calls[s].status = "none")
  /\ (pc = "done" /\ mode = "bbox" =>
        /\ EntriesOf(result.value.areas, "ramsar") = {}
        /\ EntriesOf(result.value.errors, "ramsar") = {})

\* C4 witness: a bounding-box search has returned, one of its calls failed.
C4_Witness ==
  /\ pc = "done" /\ mode = "bbox"
  /\ calls["national"].status = "rejected"
  /\ calls["n2000"].status = "fulfilled" /\ Len(calls["n2000"].value) = 2
  /\ calls["ramsar"].status = "none"

\* C5 (counts).  Each per-source count is the number of records the source
\* returned, 0 for a failed one; total_count is their sum and the length of
\* the merged sequence, so nothing is dropped as a duplicate; the error
\* entries and the successful sources add up to the applicable sources.
C5_CountConsistency ==
  pc = "done" =>
    LET v == result.value
        succeeded == {s \in SpecifiedSources(mode) : calls[s].status = "fulfilled"}
        ramsarCount == IF mode = "bbox" THEN 0 ELSE v.ramsar_count[1]
    IN  /\ v.national_count = FulfilledLen("national")
        /\ v.n2000_count = FulfilledLen("n2000")
        /\ (mode = "kommunlan" => v.ramsar_count = Some(FulfilledLen("ramsar")))
        /\ (mode = "bbox" => v.ramsar_count = Absent)
        /\ v.total_count = v.national_count + v.n2000_count + ramsarCount
        /\ v.total_count = Len(v.areas)
        /\ Len(v.errors) + Cardinality(succeeded) = Cardinality(SpecifiedSources(mode))

\* C5 witness: the same place is returned by two sources, and twice by one
\* of them; all three records are kept and counted.
C5_Witness ==
  /\ pc = "done" /\ mode = "kommunlan"
  /\ calls["national"].status = "fulfilled"
  /\ calls["national"].value = <<[id |-> "2000019", name |-> "Tyresta"],
                                 [id |-> "2000019", name |-> "Tyresta"]>>
  /\ calls["ramsar"].status = "fulfilled"
  /\ calls["ramsar"].value = <<[id |-> "2000019", name |-> "Tyresta"]>>
  /\ calls["n2000"].status = "rejected"
  /\ result.value.total_count = 3
  /\ Len(result.value.areas) = 3

\* C6 (envelope rejection).  wgs84ToSweref99 throws a ValidationError tagged
\* "coordinates" exactly when the latitude is outside [55, 69] or the
\* longitude outside [11, 24], the bounds being accepted, and returns the
\* projected point otherwise; (40.0, 5.0) is rejected, (59.3, 18.0) accepted.
C6_EnvelopeRejection ==
  (cop = "point" /\ cdone) =>
    LET outside == \/ cin.latitude < 550 \/ cin.latitude > 690
                   \/ cin.longitude < 110 \/ cin.longitude > 240
    IN  /\ outside => /\ ~cout.ok
                      /\ cout.error = "ValidationError"
                      /\ cout.field = "coordinates"
        /\ ~outside => /\ cout.ok
                       /\ cout.value.x = proj4Forward(cin.longitude, cin.latitude)[1]
                       /\ cout.value.y = proj4Forward(cin.longitude, cin.latitude)[2]
        /\ (cin = [latitude |-> 400, longitude |-> 50] => ~cout.ok)
        /\ (cin = [latitude |-> 593, longitude |-> 180] => cout.ok)

\* C6 witness: a point on the corner of the envelope has been converted.
C6_Witness ==
  /\ cop = "point" /\ cdone
  /\ cin = [latitude |-> 550, longitude |-> 240]
  /\ cout.ok

\* C7 (bounding boxes).  wgs84BboxToSweref99 returns exactly when both
\* corners are inside the envelope and minLat < maxLat and minLon < maxLon;
\* every rejection is a ValidationError tagged "bbox"; a corner outside the
\* envelope is reported before a wrong ordering; on success each corner is
\* the conversion of that corner alone.
C7_BboxValidation ==
  (cop = "bbox" /\ cdone) =>
    LET inside(lat, lon) == lat >= 550 /\ lat <= 690 /\ lon >= 110 /\ lon <= 240
        minIn == inside(cin.minLat, cin.minLon)
        maxIn == inside(cin.maxLat, cin.maxLon)
        accepted == minIn /\ maxIn /\ cin.minLat < cin.maxLat /\ cin.minLon < cin.maxLon
    IN  /\ cout.ok <=> accepted
        /\ ~cout.ok => cout.error = "ValidationError" /\ cout.field = "bbox"
        /\ ~minIn => cout.message = OutsideMessage(cin.minLat, cin.minLon)
        /\ (minIn /\ ~maxIn) => cout.message = OutsideMessage(cin.maxLat, cin.maxLon)
        /\ (minIn /\ maxIn /\ ~accepted) =>
              cout.message.text \in {"minLat must be less than maxLat",
                                     "minLon must be less than maxLon"}
        /\ accepted =>
              /\ <<cout.value.minX, cout.value.minY>> = proj4Forward(cin.minLon, cin.minLat)
              /\ <<cout.value.maxX, cout.value.maxY>> = proj4Forward(cin.maxLon, cin.maxLat)

\* C7 witness: a box of no height, inside the envelope, has been rejected.
C7_Witness ==
  /\ cop = "bbox" /\ cdone
  /\ cin = [minLat |-> 593, minLon |-> 180, maxLat |-> 593, maxLon |-> 181]
  /\ ~cout.ok /\ cout.field = "bbox"

\* The rings of a text: the positions of its innermost groups, and the
\* coordinate pairs written in the group at a position.
RingPositions(text) == {i \in DOMAIN text : IsGroup(text, i)}
RingPoints(text, i) == parseCoordRing(text[i].items)
IsClosed(points) == Len(points) > 0 => points[1] = points[Len(points)]
\* What Douglas-Peucker makes of the ring at position i of the input.
Reduced(i) == simplifyPath(RingPoints(wkt, i), tolerance)

\* C8 as claimed: no ring comes back with more coordinate pairs than it had.
C8_Original ==
  sdone => \A i \in RingPositions(wkt) :
             Len(RingPoints(out, i)) <= Len(RingPoints(wkt, i))

\* C8 (never more points), amended.  A ring whose first and last point are
\* equal comes back with at most as many coordinate pairs as it had.  A ring
\* whose first and last point differ comes back with at most one pair more,
\* and with one more only when no point was removed and the first point was
\* appended.
C8_NeverMorePoints ==
  sdone => \A i \in RingPositions(wkt) :
    LET before == RingPoints(wkt, i)
        after  == RingPoints(out, i)
    IN  /\ IsClosed(before) => Len(after) <= Len(before)
        /\ Len(after) <= Len(before) + 1
        /\ Len(after) > Len(before) => after = Append(before, before[1])

\* C8 witness: a closed ring of five points came back with four.
C8_Witness ==
  /\ sdone /\ tolerance = 1
  /\ wkt = Polygon(FormatRing(<< <<0, 0>>, <<1, 0>>, <<2, 0>>, <<2, 1>>, <<0, 0>> >>))
  /\ out = Polygon(FormatRing(<< <<0, 0>>, <<2, 0>>, <<2, 1>>, <<0, 0>> >>))

\* C9 as claimed: a ring reduced below four points is emitted unmodified, a
\* ring of four or more points never comes back with fewer than four, and a
\* ring of four points always comes back with four.
C9_Original ==
  sdone => \A i \in RingPositions(wkt) :
    LET before == RingPoints(wkt, i)
        after  == RingPoints(out, i)
    IN  /\ (Len(before) >= 4 /\ Len(Reduced(i)) < 4) => out[i] = wkt[i]
        /\ Len(before) >= 4 => Len(after) >= 4
        /\ Len(before) = 4 => Len(after) = 4

\* C9 (minimum validity), amended.  A ring that Douglas-Peucker reduces below
\* four points is emitted unmodified, so a ring of four or more points never
\* comes back with fewer than four, whatever the tolerance.  A ring of four
\* points comes back with four when its first and last point are equal, and
\* with four or five when they differ.
C9_MinimumValidity ==
  sdone => \A i \in RingPositions(wkt) :
    LET before == RingPoints(wkt, i)
        after  == RingPoints(out, i)
    IN  /\ (Len(before) >= 4 /\ Len(Reduced(i)) < 4) => out[i] = wkt[i]
        /\ Len(before) >= 4 => Len(after) >= 4
        /\ (Len(before) = 4 /\ IsClosed(before)) => after = before
        /\ Len(before) = 4 => Len(after) \in {4, 5}

\* C9 witness: a triangle, closed, under a tolerance larger than the ring:
\* Douglas-Peucker leaves two points and the ring comes back as it was.
C9_Witness ==
  /\ sdone /\ tolerance = 20
  /\ wkt = Polygon(FormatRing(<< <<0, 0>>, <<2, 0>>, <<1, 1>>, <<0, 0>> >>))
  /\ Len(Reduced(4)) = 2
  /\ out = wkt

\* C10 as claimed: every ring of the output has its first point equal to its
\* last point.  It is stated of the rings that had four points or more in
\* the input, the shortest a polygon ring can be.
C10_Original ==
  sdone => \A i \in RingPositions(out) :
             Len(RingPoints(wkt, i)) >= 4 => IsClosed(RingPoints(out, i))

\* C10 (closure), amended.  Every ring that simplify rewrites, one that
\* Douglas-Peucker leaves with four points or more, has its first point equal
\* to its last point in the output: the first point is appended when the
\* reduced ring's first and last point differ, and nothing is appended
\* otherwise.  A ring that is emitted unmodified is as closed as it was.
C10_Closure ==
  sdone => \A i \in RingPositions(out) :
    LET before == RingPoints(wkt, i)
        after  == RingPoints(out, i)
        reduced == Reduced(i)
    IN  IF Len(before) >= 4 /\ Len(reduced) >= 4
        THEN /\ IsClosed(after)
             /\ after = IF reduced[1] # reduced[Len(reduced)]
                        THEN Append(reduced, reduced[1])
                        ELSE reduced
        ELSE out[i] = wkt[i]

\* C10 witness: an open path of four points, all kept, came back closed.
C10_Witness ==
  /\ sdone /\ tolerance = 0
  /\ wkt = Polygon(FormatRing(<< <<0, 0>>, <<2, 0>>, <<2, 1>>, <<0, 1>> >>))
  /\ out = Polygon(FormatRing(<< <<0, 0>>, <<2, 0>>, <<2, 1>>, <<0, 1>>, <<0, 0>> >>))

\* The ring of the end-to-end example, (18.0 59.0, 18.0001 59.0001,
\* 18.0002 59.0, 18.0 59.0), in grid units of 0.0001 degree counted from
\* (18.0, 59.0), and its tolerance 0.001, ten grid units.
ExampleRing == << <<0, 0>>, <<1, 1>>, <<2, 0>>, <<0, 0>> >>
DEFAULT_TOLERANCE == 20
ExampleCase == wkt = Polygon(FormatRing(ExampleRing)) /\ tolerance = DEFAULT_TOLERANCE

\* C11 as claimed: the example ring comes back reduced, to fewer coordinate
\* pairs than the four it had (the two extreme points and the closure).
C11_Original ==
  (sdone /\ ExampleCase) => Len(RingPoints(out, 4)) < Len(ExampleRing)

\* C11 (end-to-end example), amended.  Both interior points of the example
\* ring deviate from the baseline by less than the tolerance, so
\* Douglas-Peucker leaves the two ends of the ring, which are the same point;
\* that is fewer than four points and simplify returns the input text
\* unchanged, with all four coordinate pairs.
C11_ExampleUnchanged ==
  (sdone /\ ExampleCase) =>
     /\ \A k \in 2..3 : ~DistGT(perpendicularDistance(ExampleRing[k], ExampleRing[1],
                                                      ExampleRing[4]),
                                ToleranceDist(tolerance))
     /\ Reduced(4) = << <<0, 0>>, <<0, 0>> >>
     /\ out = wkt
     /\ RingPoints(out, 4) = ExampleRing

\* C11 witness: simplify has returned on the example.
C11_Witness == sdone /\ ExampleCase /\ Len(RingPoints(out, 4)) = 4

\* The points of a path with their positions, and the positions of the
\* points that simplifyPath retains.
Indexed(points) == [k \in 1..Len(points) |-> <<points[k][1], points[k][2], k>>]
Retained(points, tol) ==
  LET kept == simplifyPath(Indexed(points), tol)
  IN  {kept[k][3] : k \in 1..Len(kept)}
\* The contiguous pieces of a path that have an interior point.
Pieces(points) ==
  {SubSeq(points, ab[1], ab[2]) :
     ab \in {cd \in (1..Len(points)) \X (1..Len(points)) : cd[2] >= cd[1] + 2}}
InteriorDist(piece, k) == perpendicularDistance(piece[k], piece[1], piece[Len(piece)])

\* C12 (tolerance bound).  Every point that simplifyPath discards lies within
\* the tolerance of the line through its nearest retained neighbours before
\* and after it, the distance being the one perpendicularDistance computes.
\* A piece of the path is split exactly when the distance of its farthest
\* interior point exceeds the tolerance, and then at that point; otherwise it
\* collapses to its two ends.
C12_ToleranceBound ==
  sdone => \A i \in RingPositions(wkt) :
    LET points == RingPoints(wkt, i)
        reduced == simplifyPath(Indexed(points), tolerance)
        kept   == {reduced[k][3] : k \in 1..Len(reduced)}
    IN  /\ Len(points) > 0 => {1, Len(points)} \subseteq kept
        /\ reduced = SelectSeq(Indexed(points), LAMBDA q : q[3] \in kept)
        /\ \A j \in (1..Len(points)) \ kept :
             LET a == CHOOSE a \in kept : a < j /\ \A c \in kept : c < j => c <= a
                 b == CHOOSE b \in kept : b > j /\ \A c \in kept : c > j => c >= b
             IN  ~DistGT(perpendicularDistance(points[j], points[a], points[b]),
                         ToleranceDist(tolerance))
        /\ \A piece \in Pieces(points) :
             LET far == Farthest(piece)
                 exceeds == \E k \in 2..(Len(piece) - 1) :
                               DistGT(InteriorDist(piece, k), ToleranceDist(tolerance))
                 simplified == simplifyPath(Indexed(piece), tolerance)
             IN  /\ \A k \in 2..(Len(piece) - 1) : ~DistGT(InteriorDist(piece, k), far.maxDist)
                 /\ exceeds =>
                      /\ far.maxIndex \in 2..(Len(piece) - 1)
                      /\ far.maxDist = InteriorDist(piece, far.maxIndex)
                      /\ far.maxIndex \in {simplified[k][3] : k \in 1..Len(simplified)}
                 /\ ~exceeds => simplified = <<Indexed(piece)[1], Indexed(piece)[Len(piece)]>>

\* C12 witness: of an open path of five points, one point off the baseline
\* by more than the tolerance is retained and two within it are discarded.
C12_Witness ==
  /\ sdone /\ tolerance = 1
  /\ wkt = Polygon(FormatRing(<< <<0, 0>>, <<1, 0>>, <<2, 1>>, <<1, 1>>, <<0, 1>> >>))
  /\ Retained(RingPoints(wkt, 4), tolerance) = {1, 3, 5}

\* The points of a ring, as a set.
PointSet(points) == {points[k] : k \in 1..Len(points)}

\* C13 (frame).  simplify rewrites only the innermost parenthesized groups.
\* The output has as many tokens as the input; every token outside those
\* groups (keyword, structural parentheses, separators) is unchanged and in
\* its place; the rings stand at the same positions, so there are as many, in
\* the same order, and each is made of points of the input ring in its place.
C13_Frame ==
  sdone =>
    /\ Len(out) = Len(wkt)
    /\ \A i \in DOMAIN wkt : ~IsGroup(wkt, i) => out[i] = wkt[i]
    /\ RingPositions(out) = RingPositions(wkt)
    /\ \A i \in RingPositions(wkt) :
         PointSet(RingPoints(out, i)) \subseteq PointSet(RingPoints(wkt, i))

\* C13 witness: of the two polygons of a multipolygon the first ring, an
\* open path, came back closed and the second, a triangle, as it was, with
\* the text around them unchanged.
C13_Witness ==
  /\ sdone /\ tolerance = 0
  /\ wkt = MultiPolygon(FormatRing(<< <<0, 0>>, <<2, 0>>, <<2, 1>>, <<0, 1>> >>),
                        FormatRing(<< <<0, 0>>, <<2, 0>>, <<1, 1>>, <<0, 0>> >>))
  /\ out = MultiPolygon(FormatRing(<< <<0, 0>>, <<2, 0>>, <<2, 1>>, <<0, 1>>, <<0, 0>> >>),
                        FormatRing(<< <<0, 0>>, <<2, 0>>, <<1, 1>>, <<0, 0>> >>))

\* An item that parses as two finite numbers: it has two parts or more and
\* parseFloat reads a number that is neither NaN nor an infinity from each of
\* the first two.
IsFinite(n) == ~n.nan /\ n.v # Infinity /\ n.v # -Infinity
ParsesAsTwoFinite(item) ==
  /\ Len(item.parts) >= 2
  /\ IsFinite(parseFloat(item.parts[1]))
  /\ IsFinite(parseFloat(item.parts[2]))

\* C14 as claimed (parsing never fails).  parseCoordRing returns; an item
\* that does not parse as two finite numbers is dropped, every other item
\* yields one pair, in input order, so there are at most as many pairs as
\* items.  The code keeps an item of which a part reads as an infinity.
C14_Original ==
  pdone =>
    /\ Len(pout) <= Len(pin)
    /\ pout = FlattenFrom([k \in 1..Len(pin) |->
                             IF ParsesAsTwoFinite(pin[k])
                             THEN << <<parseFloat(pin[k].parts[1]).v,
                                       parseFloat(pin[k].parts[2]).v>> >>
                             ELSE << >>], 1)

\* A ring in the canonical form: "x y" pairs joined by ", ", the numbers
\* written as JavaScript writes them.
IsCanonical(items) == items = FormatRing(parseCoordRing(items))

\* C15 as claimed: every ring of the output is in the canonical form,
\* whatever its form in the input.  It is stated of the rings that had four
\* pairs or more in the input.
C15_Original ==
  sdone => \A i \in RingPositions(out) :
             Len(RingPoints(wkt, i)) >= 4 => IsCanonical(out[i].items)

\* C15 (reconstruction format), amended.  Every ring that simplify rewrites,
\* one of four pairs or more that Douglas-Peucker leaves with four points or
\* more, is emitted in the canonical form whatever its spacing, separators or
\* numerals in the input.  Every other ring is emitted exactly as it was
\* written in the input.
C15_Format ==
  sdone => \A i \in RingPositions(out) :
    IF Len(RingPoints(wkt, i)) >= 4 /\ Len(Reduced(i)) >= 4
    THEN IsCanonical(out[i].items)
    ELSE out[i] = wkt[i]

\* C15 witness: a closed square with one more pair written "  1.0   02 "
\* came back rewritten, all pairs in the canonical form.
C15_Witness ==
  /\ sdone /\ tolerance = 0
  /\ wkt = Polygon(InsertAt(FormatRing(<< <<0, 0>>, <<1, 0>>, <<1, 1>>, <<0, 1>>, <<0, 0>> >>),
                            2, Item(2, <<"1.0", "02">>, 3, 1)))
  /\ ~IsCanonical(wkt[4].items)
  /\ Len(Reduced(4)) >= 4
  /\ IsCanonical(out[4].items)
  /\ <<1, 2>> \in PointSet(RingPoints(out, 4))

\* Whether a bound is a number, neither an infinity nor missing.
FiniteBox(box) ==
  /\ DOMAIN box = {"minX", "maxX", "minY", "maxY"}
  /\ \A f \in DOMAIN box : Abs(box[f]) # Infinity

\* C16 (empty geometry input is an error).  extractBoundingBoxFromWkt throws
\* on a text without a numeric coordinate pair, the empty text included, and
\* combineBoundingBoxes throws on the empty list; a box that is returned has
\* four finite bounds.  The GeometryError of the specification is the Error
\* that the code throws with one of the two messages.
C16_EmptyIsError ==
  bdone =>
    /\ (bop = "extract" /\ (bin \in NoPairTexts
                            \/ \E shape \in Shapes : bin = PairText(shape, << >>))) =>
          bout = Thrown("No coordinates found in WKT string")
    /\ bop = "extract" => (bout.ok <=> Len(MatchesFrom(bin, 1)) > 0)
    /\ (bop = "combine" /\ Len(bin) = 0) =>
          bout = Thrown("Cannot combine empty array of bounding boxes")
    /\ bop = "combine" => (bout.ok <=> Len(bin) > 0)
    /\ (bop \in {"extract", "combine"} /\ bout.ok) => FiniteBox(bout.value)

\* C16 witness: the empty text has been rejected.
C16_Witness ==
  bop = "extract" /\ bdone /\ bin = << >> /\ ~bout.ok /\ bout.error = "Error"

\* The least and the greatest number of a non-empty set.
Least(S) == CHOOSE a \in S : \A b \in S : a <= b
Greatest(S) == CHOOSE a \in S : \A b \in S : a >= b
\* The exact bounds of a non-empty sequence of pairs.
BoundsOf(pairs) ==
  Box(Least({pairs[k][1] : k \in 1..Len(pairs)}), Greatest({pairs[k][1] : k \in 1..Len(pairs)}),
      Least({pairs[k][2] : k \in 1..Len(pairs)}), Greatest({pairs[k][2] : k \in 1..Len(pairs)}))

\* The numerals of a text taken two by two: the pairs that a text of pairs
\* in decimal notation is written from.
PairsWritten(text) ==
  LET numerals == SelectSeq(text, LAMBDA t : t.kind = "numeral")
  IN  [k \in 1..(Len(numerals) \div 2) |-> <<numerals[2 * k - 1].v, numerals[2 * k].v>>]

\* C17 (exact bounds).  On a text with a coordinate pair or more
\* extractBoundingBoxFromWkt returns the least and the greatest first number
\* and the least and the greatest second number of all the pairs, whether
\* they stand in one ring, in several polygons or outside any parenthesis;
\* so minX <= maxX, minY <= maxY, and every pair lies inside the box.
C17_ExactBounds ==
  (bop = "extract" /\ bdone) =>
    /\ \A shape \in Shapes :
         LET ps == PairsWritten(bin)
         IN  (Len(ps) > 0 /\ bin = PairText(shape, ps)) => bout = Returned(BoundsOf(ps))
    /\ Len(MatchesFrom(bin, 1)) > 0 =>
         /\ bout = Returned(BoundsOf(MatchesFrom(bin, 1)))
         /\ bout.value.minX <= bout.value.maxX
         /\ bout.value.minY <= bout.value.maxY
         /\ \A k \in 1..Len(MatchesFrom(bin, 1)) :
              LET pair == MatchesFrom(bin, 1)[k]
              IN  /\ bout.value.minX <= pair[1] /\ pair[1] <= bout.value.maxX
                  /\ bout.value.minY <= pair[2] /\ pair[2] <= bout.value.maxY

\* C17 witness: the bounds of three pairs that stand in three polygons of a
\* multipolygon; no pair is a corner of the box.
C17_Witness ==
  /\ bop = "extract" /\ bdone
  /\ bin = PairText("multipolygon", << <<10 * Scale, 15>>, <<15, (-20) * Scale>>,
                                       <<(-20) * Scale, 10 * Scale>> >>)
  /\ bout = Returned(Box((-20) * Scale, 10 * Scale, (-20) * Scale, 10 * Scale))

\* The lists with the same boxes as a list, in every order.
Reorderings(boxes) ==
  {[k \in 1..Len(boxes) |-> boxes[f[k]]] :
     f \in {g \in [1..Len(boxes) -> 1..Len(boxes)] :
              \A a, b \in 1..Len(boxes) : a # b => g[a] # g[b]}}

\* C18 (combination is order-independent and associative).  For a non-empty
\* list of boxes the result has the least minX and minY and the greatest maxX
\* and maxY of all the boxes; every order of the list gives the same result;
\* combining the combination of a first part of the list with the rest gives
\* the same result; a single box comes back as it is.
C18_CombineAlgebra ==
  (bop = "combine" /\ bdone /\ Len(bin) > 0) =>
    /\ bout.ok
    /\ bout.value = Box(Least({bin[k].minX : k \in 1..Len(bin)}),
                        Greatest({bin[k].maxX : k \in 1..Len(bin)}),
                        Least({bin[k].minY : k \in 1..Len(bin)}),
                        Greatest({bin[k].maxY : k \in 1..Len(bin)}))
    /\ \A other \in Reorderings(bin) : combineBoundingBoxes(other) = bout
    /\ \A other \in Reorderings(bin) : \A n \in 1..Len(other) :
         combineBoundingBoxes(<<combineBoundingBoxes(SubSeq(other, 1, n)).value>>
                                \o SubSeq(other, n + 1, Len(other))) = bout
    /\ Len(bin) = 1 => bout.value = bin[1]

\* C18 witness: three different boxes have been combined.
C18_Witness ==
  /\ bop = "combine" /\ bdone
  /\ bin = << Box(2, 15, (-20) * Scale, 0),
              Box(10 * Scale, 30 * Scale, 20 * Scale, 40 * Scale),
              Box((-20) * Scale, 10 * Scale, -3, 15) >>
  /\ bout = Returned(Box((-20) * Scale, 30 * Scale, (-20) * Scale, 40 * Scale))

\* A box with its minima at or below its maxima.
WellFormed(box) == box.minX <= box.maxX /\ box.minY <= box.maxY

\* C19 as claimed (round trip): for every box with minX <= maxX and
\* minY <= maxY, extracting the bounding box of the text that
\* boundingBoxToWkt writes for it returns the box exactly.  The code writes a
\* number below 0.000001 with an exponent, which the pattern of the
\* extractor reads as another number.
C19_Original ==
  (bop = "toWkt" /\ bdone /\ WellFormed(bin)) =>
     extractBoundingBoxFromWkt(bout.value) = Returned(bin)

\* The text of a polygon of one ring, as line 194 lays it out.
RingText(points) ==
  <<Word("POLYGON"), Blank, LeftParen, LeftParen, Blank>>
    \o JoinPairs(points, 1, <<Comma, Blank>>) \o <<RightParen, RightParen>>
\* The corners of a box from (minX, minY), x to the right and y upward:
\* clockwise, the upper left corner comes second; counter-clockwise, the
\* lower right corner does.
Clockwise(box) ==
  << <<box.minX, box.minY>>, <<box.minX, box.maxY>>, <<box.maxX, box.maxY>>,
     <<box.maxX, box.minY>>, <<box.minX, box.minY>> >>
CounterClockwise(box) ==
  << <<box.minX, box.minY>>, <<box.maxX, box.minY>>, <<box.maxX, box.maxY>>,
     <<box.minX, box.maxY>>, <<box.minX, box.minY>> >>
\* The turn at q on the way from p over q to r, for edges parallel to the
\* axes: 1 to the left, -1 to the right, 0 for none.
Sign(v) == IF v > 0 THEN 1 ELSE IF v < 0 THEN -1 ELSE 0
Turn(p, q, r) ==
  Sign(q[1] - p[1]) * Sign(r[2] - q[2]) - Sign(q[2] - p[2]) * Sign(r[1] - q[1])
\* A box of positive width and height.
Proper(box) == box.minX < box.maxX /\ box.minY < box.maxY

\* C20 as claimed: one ring of five pairs, the corners of the box from
\* (minX, minY) in clockwise order and the first corner again.  It is stated
\* of the boxes of positive width and height.
C20_Original ==
  (bop = "toWkt" /\ bdone /\ Proper(bin)) => bout.value = RingText(Clockwise(bin))

\* C20 (corner order), amended.  boundingBoxToWkt writes one POLYGON ring of
\* five coordinate pairs: (minX, minY), (maxX, minY), (maxX, maxY),
\* (minX, maxY) and (minX, minY) again, so the ring is closed; with x to the
\* right and y upward that is the counter-clockwise order, every turn of the
\* ring of a box of positive width and height being a turn to the left.
C20_CornerOrder ==
  (bop = "toWkt" /\ bdone) =>
    LET ring == CounterClockwise(bin)
    IN  /\ bout.value = RingText(ring)
        /\ Len(ring) = 5 /\ ring[1] = ring[5]
        /\ Proper(bin) => /\ \A k \in 1..3 : Turn(ring[k], ring[k + 1], ring[k + 2]) = 1
                          /\ bout.value # RingText(Clockwise(bin))

\* C20 witness: the ring of the box with minX 10, minY 20, maxX 30, maxY 40.
C20_Witness ==
  /\ bop = "toWkt" /\ bdone
  /\ bin = Box(10 * Scale, 30 * Scale, 20 * Scale, 40 * Scale)
  /\ PairsWritten(bout.value) =
       << <<10 * Scale, 20 * Scale>>, <<30 * Scale, 20 * Scale>>, <<30 * Scale, 40 * Scale>>,
          <<10 * Scale, 40 * Scale>>, <<10 * Scale, 20 * Scale>> >>

(***************************************************************************)
(* detailHandler and extentHandler                                         *)
(***************************************************************************)
\* The table of src/README.md, lines 27-39: the sources an include type is
\* marked 'yes' for.
ReadmeYes(include) ==
  CASE include \in {"geometry", "land_cover", "all"} -> {"national", "n2000", "ramsar"}
    [] include = "documents" -> {"national", "n2000"}
    [] include \in {"purposes", "regulations", "env_goals"} -> {"national"}
    [] include \in {"species", "habitats"} -> {"n2000"}

\* An outcome that is a thrown ValidationError.
IsValidationError(o) == ~o.ok /\ o.error = "ValidationError"

\* No upstream call has been created.
NoUpstreamCall == hlog = << >> /\ \A k \in HandlerCalls : hcalls[k].status = "none"

\* The include type of a detail request as the table reads it: an omitted
\* one counts as 'all'.
RequestedInclude == IF hargs.include = Absent THEN "all" ELSE hargs.include[1]

\* C21: once detailHandler has acted on a request, it has created its
\* first upstream call and never fails with a ValidationError if the README
\* table marks the (source, include) pair 'yes', and it has failed with a
\* ValidationError without creating any upstream call if the table marks
\* the pair 'no'; an omitted include is read as 'all'.
C21_IncludeTable ==
  (hop = "detail" /\ hpc # "start") =>
    IF hargs.source \in ReadmeYes(RequestedInclude)
    THEN /\ ~IsValidationError(hresult)
         /\ Len(hlog) >= 1 /\ hlog[1] = GetArea
    ELSE /\ hpc = "threw"
         /\ IsValidationError(hresult)
         /\ NoUpstreamCall

\* A Ramsar request for documents was rejected before any call was made.
C21_Witness ==
  /\ hop = "detail" /\ hargs.source = "ramsar" /\ hargs.include = Some("documents")
  /\ hpc = "threw" /\ IsValidationError(hresult) /\ NoUpstreamCall

\* The number of ids a request gives for a source: none when the array is
\* missing.
GivenIds(o) == IF o = Absent THEN 0 ELSE Len(o[1])
GivenTotal == GivenIds(hargs.nationalIds) + GivenIds(hargs.n2000Ids) + GivenIds(hargs.ramsarIds)
GivenFor(s) ==
  CASE s = "national" -> GivenIds(hargs.nationalIds)
    [] s = "n2000" -> GivenIds(hargs.n2000Ids)
    [] s = "ramsar" -> GivenIds(hargs.ramsarIds)

\* C22: once extentHandler has acted on a request, it has failed with a
\* ValidationError without creating any upstream call if the ids of the
\* three arrays number 0 or more than 100 in total (a missing array counts
\* as empty); otherwise it never fails with a ValidationError and has
\* created exactly one extent call for every source whose array is not
\* empty and none for the others.
C22_ExtentLimits ==
  (hop = "extent" /\ hpc # "start") =>
    IF GivenTotal = 0 \/ GivenTotal > MaxTotalIds
    THEN /\ hpc = "threw"
         /\ IsValidationError(hresult)
         /\ NoUpstreamCall
    ELSE /\ ~IsValidationError(hresult)
         /\ \A s \in Sources :
              /\ GivenFor(s) > 0 => Cardinality({i \in DOMAIN hlog : hlog[i] = s}) = 1
              /\ GivenFor(s) > 0 => hcalls[s].status # "none"
              /\ GivenFor(s) = 0 => hcalls[s].status = "none"
         /\ \A i \in DOMAIN hlog : hlog[i] \in Sources /\ GivenFor(hlog[i]) > 0

\* A request of exactly 100 ids over three sources had its three calls
\* created.
C22_Witness ==
  /\ hop = "extent" /\ GivenTotal = MaxTotalIds
  /\ hpc = "extent" /\ Len(hlog) = 3

(***************************************************************************)
(* The transport                                                           *)
(***************************************************************************)
\* A response has arrived, with a 2xx status, a plain text or an XML
\* content type.
HasResponse == tresp # NoResponse
Is2xx == tresp.status \in 200..299
IsPlainText ==
  tresp.contentType \in {Some("text/plain"), Some("text/plain; charset=utf-8")}
IsXml ==
  tresp.contentType \in {Some("text/xml; charset=UTF-8"), Some("application/xml")}

\* C23: a call of request that has thrown has thrown an UpstreamApiError
\* that carries the client's base URL, with the HTTP status as its code
\* when the response was not 2xx and with code 0 when no response arrived
\* (timeout, network failure) or the body of a 2xx response could not be
\* read; a 2xx response with an XML content type makes the call throw; and
\* a call that has returned has returned the body as text when the content
\* type is text/plain and the parsed JSON of the body otherwise.
C23_OnlyUpstreamErrors ==
  /\ tpc = "threw" =>
       /\ tout.error = "UpstreamApiError"
       /\ tout.baseUrl = treq.baseUrl
       /\ ~HasResponse => tout.code = 0
       /\ (HasResponse /\ ~Is2xx) => tout.code = tresp.status
       /\ (HasResponse /\ Is2xx /\ ~IsXml) => tout.code = 0
  /\ (tpc \in {"done", "threw"} /\ HasResponse /\ Is2xx /\ IsXml) => tpc = "threw"
  /\ tpc = "done" =>
       /\ HasResponse /\ Is2xx /\ IsDefined(tresp.body)
       /\ IF IsPlainText THEN tout = Returned(tresp.body[1])
          ELSE JsonParse(tresp.body[1]).ok /\ tout = JsonParse(tresp.body[1])

\* A 200 response announced as JSON had a body that is not JSON, and the
\* call threw an UpstreamApiError of code 0.
C23_Witness ==
  /\ tpc = "threw" /\ tresp.status = 200
  /\ tresp.contentType = Some("application/json")
  /\ tresp.body = Some("<ServiceExceptionReport/>")
  /\ tout.error = "UpstreamApiError" /\ tout.code = 0

\* C24 (as stated): once the timeout has elapsed on a call that had not
\* returned its value, whether it was waiting for the response or reading
\* the body, the call has failed with an upstream error of code 0; and no
\* timer is armed once the call has settled.
C24_Original ==
  /\ tclock = "elapsed" => (tpc = "threw" /\ tout.code = 0)
  /\ tpc \in {"done", "threw"} => ttimer # "armed"

(***************************************************************************)
(* searchHandler: validation and merging                                   *)
(***************************************************************************)
\* A search request gives kommun/lan when one of the two is a non-empty
\* string, and it gives as many bbox parameters as are present.
KommunLanGiven ==
  args.kommun \notin {Absent, Some("")} \/ args.lan \notin {Absent, Some("")}
BboxParamsGiven ==
  Cardinality({k \in {"minLat", "minLon", "maxLat", "maxLon"} : args[k] # Absent})

\* The four kinds of request the handler is specified to refuse.
NoCriterion == ~KommunLanGiven /\ BboxParamsGiven = 0
BothCriteria == KommunLanGiven /\ BboxParamsGiven > 0
PartialBbox == BboxParamsGiven \in 1..3
BboxRefused ==
  /\ BboxParamsGiven = 4
  /\ ~wgs84BboxToSweref99([minLat |-> args.minLat[1], minLon |-> args.minLon[1],
                           maxLat |-> args.maxLat[1], maxLon |-> args.maxLon[1]]).ok

\* C25: once searchHandler has acted on a request, it has failed with a
\* ValidationError and no upstream call was ever created if the request
\* gives no criterion, gives both kommun/lan and a bbox parameter, gives
\* some but not all four bbox parameters, or gives a bbox that the
\* conversion rejects; otherwise its upstream calls were created and it
\* never fails with a ValidationError.
C25_ValidationFirst ==
  pc # "start" =>
    IF NoCriterion \/ BothCriteria \/ PartialBbox \/ BboxRefused
    THEN /\ pc = "threw"
         /\ IsValidationError(result)
         /\ launchLog = << >>
         /\ \A s \in Sources : calls[s].status = "none"
    ELSE /\ ~IsValidationError(result)
         /\ launchLog # << >>

\* A request with four bbox parameters, one of them outside the envelope,
\* was refused before any call was created.
C25_Witness ==
  /\ pc = "threw" /\ BboxRefused /\ ~KommunLanGiven
  /\ IsValidationError(result) /\ launchLog = << >>

\* The texts the extent calls of a request were fulfilled with, in the
\* order the calls were created.
ExtentTextsReceived == [i \in 1..Len(hlog) |-> hcalls[hlog[i]].value]

\* Every coordinate pair written in a list of texts.
RECURSIVE AllPairsWritten(_)
AllPairsWritten(texts) ==
  IF texts = << >> THEN << >>
  ELSE PairsWritten(texts[1]) \o AllPairsWritten(Tail(texts))

\* C26: when extentHandler has returned, total_areas is the number of ids
\* given; with ids of one source the extent is the text that source's call
\* returned, unchanged; with ids of two or three sources the extent is the
\* text boundingBoxToWkt writes for the smallest box that contains every
\* coordinate pair of every source's text, and it is the same whatever the
\* order of the sources' texts.
C26_ExtentMerge ==
  (hop = "extent" /\ hpc = "done") =>
    /\ hresult.value.total_areas = GivenTotal
    /\ IF Len(hlog) = 1
       THEN hresult.value.extent = ExtentTextsReceived[1]
       ELSE /\ hresult.value.extent =
                 boundingBoxToWkt(BoundsOf(AllPairsWritten(ExtentTextsReceived)))
            /\ \A r \in Reorderings(ExtentTextsReceived) : ExtentResult(hargs, r) = hresult

\* Three sources returned three different texts and the extent returned
\* is none of them.
C26_Witness ==
  /\ hop = "extent" /\ hpc = "done" /\ Len(hlog) = 3
  /\ Cardinality(Range(ExtentTextsReceived)) = 3
  /\ hresult.value.extent \notin Range(ExtentTextsReceived)

\* One source returned "POLYGON EMPTY" and that text is the extent.
C26_WitnessSingle ==
  /\ hop = "extent" /\ hpc = "done" /\ Len(hlog) = 1
  /\ hresult.value.extent = <<Word("POLYGON"), Blank, Word("EMPTY")>>

\* The calls that have failed, and the first of them.
FailedCalls == {k \in HandlerCalls : hcalls[k].status = "rejected"}
FirstFailed ==
  hsettled[CHOOSE i \in DOMAIN hsettled :
             /\ hsettled[i] \in FailedCalls
             /\ \A j \in 1..(i - 1) : hsettled[j] \notin FailedCalls]

\* The components a detail request asks for: the one named by `include`,
\* or with 'all' every component the source has.
RequestedComponents ==
  IF RequestedInclude = "all"
  THEN {t \in INCLUDE_TYPES \ {"all"} : hargs.source \in ReadmeYes(t)}
  ELSE {RequestedInclude}

\* C27: as soon as an upstream call of detailHandler or extentHandler has
\* failed, the handler has failed, what it threw is the rejection reason of
\* the call that failed (the first, when a second call of the same batch
\* fails later), unmodified, and there is no result object; a handler that
\* has returned had every call it made fulfilled, and the object a detail
\* request returns holds the value of every component asked for.
C27_NoPartialResult ==
  /\ FailedCalls # {} =>
       /\ hpc = "threw"
       /\ ~hresult.ok
       /\ hresult.error = "rejection"
       /\ hresult.reason = hcalls[FirstFailed].reason
  /\ hpc = "done" =>
       /\ hresult.ok
       /\ \A i \in DOMAIN hlog : hcalls[hlog[i]].status = "fulfilled"
       /\ hop = "detail" =>
            /\ hresult.value.name = hcalls[GetArea].value.name
            /\ \A t \in RequestedComponents :
                 /\ t \in DOMAIN hresult.value
                 /\ hresult.value[t] = hcalls[t].value

\* A national request for everything got its base record and its first
\* batch, the regulations call of the second batch failed, and the handler
\* threw that call's error.
C27_Witness ==
  /\ hop = "detail" /\ hargs.source = "national" /\ hpc = "threw"
  /\ hcalls["geometry"].status = "fulfilled" /\ hcalls["purposes"].status = "fulfilled"
  /\ hcalls["regulations"].status = "rejected"
  /\ hresult.reason = UpstreamError("UpstreamApiError", 404, "regulations")

\* Both extent calls of a request failed, one after the other.
C27_WitnessTwoFailures ==
  /\ hop = "extent" /\ Cardinality(FailedCalls) = 2 /\ hpc = "threw"

\* The batches of a detail request for everything, as specified: the calls
\* of a batch run together, the batches one after the other.
SpecifiedBatches(source) ==
  CASE source = "national" ->
         << {"geometry", "purposes"}, {"land_cover", "regulations"},
            {"env_goals", "documents"} >>
    [] source = "n2000" ->
         << {"species", "habitats"}, {"land_cover", "geometry"}, {"documents"} >>
    [] source = "ramsar" -> << {"geometry", "land_cover"} >>

\* The calls that have been created, and those in flight.
Created == {hlog[i] : i \in DOMAIN hlog}
InFlight == {k \in HandlerCalls : hcalls[k].status = "pending"}

\* C28, in every state of a detail request: a component call exists only
\* if the base call has succeeded; at most two calls are in flight; and
\* for a request for everything the calls created so far are the base call
\* followed by the first batches of the source, each batch complete, a
\* batch being there only if every call of the batch before has succeeded.
C28_StateOrder ==
  hop = "detail" =>
    /\ Created # {} => hlog[1] = GetArea
    /\ Created \ {GetArea} # {} => hcalls[GetArea].status = "fulfilled"
    /\ Cardinality(InFlight) <= 2
    /\ Cardinality(Created) = Len(hlog)
    /\ RequestedInclude = "all" =>
         LET batches == SpecifiedBatches(hargs.source)
         IN  /\ Created \ {GetArea} \subseteq UNION {batches[j] : j \in DOMAIN batches}
             /\ \A j \in DOMAIN batches :
                  /\ batches[j] \cap Created # {} => batches[j] \subseteq Created
                  /\ (j > 1 /\ batches[j] \cap Created # {}) =>
                       \A k \in batches[j - 1] : hcalls[k].status = "fulfilled"
                  /\ \A a, b \in DOMAIN hlog :
                       (j > 1 /\ hlog[a] \in batches[j - 1] /\ hlog[b] \in batches[j]) => a < b

\* C28, in every step of a detail request: once a call has failed no call
\* is created any more, and calls are created only when nothing is in
\* flight after the step that is not created by it.
C28_StepOrder ==
  (hop = "detail" /\ hlog' # hlog) =>
    /\ FailedCalls = {}
    /\ \A k \in HandlerCalls : hcalls'[k].status = "pending" => k \notin Created

\* C28: batched detail fetching keeps the order base call, first batch,
\* second batch, third batch, with at most two calls in flight and no
\* batch after a failure.
C28_BatchOrder == [](C28_StateOrder) /\ [][C28_StepOrder]_vars

\* A national request without include has its third batch in flight.
C28_Witness ==
  /\ hop = "detail" /\ hargs.source = "national" /\ hargs.include = Absent
  /\ hlog = <<GetArea, "geometry", "purposes", "land_cover", "regulations",
              "env_goals", "documents">>
  /\ InFlight = {"env_goals", "documents"}

\* The place of a source in the fixed order national, n2000, ramsar.
SourceRank(s) == CASE s = "national" -> 1 [] s = "n2000" -> 2 [] s = "ramsar" -> 3

\* The entries of a merged list that belong to a source, in their order.
GroupOf(list, s) == SelectSeq(list, LAMBDA e : e.source = s)

\* The identifier and the name of a record as its source returned it.
NativeId(record) == IF "kod" \in DOMAIN record THEN record.kod ELSE record.id

\* The message of a failure reason, or 'Unknown error' when it has none.
SpecifiedMessage(reason) ==
  IF reason = NoReason \/ reason.message = Absent THEN "Unknown error"
  ELSE reason.message[1]

\* C29: when an aggregated search has returned, its records are grouped by
\* source in the order national, n2000, ramsar, the group of a source holds
\* the records that source returned, in the order it returned them, the
\* error entries are those of the sources that failed, in the same source
\* order and with the message of the failure reason or 'Unknown error';
\* so the output is fixed by the outcomes of the calls, whatever the order
\* in which they completed.
C29_MergeOrder ==
  pc = "done" =>
    LET areas == result.value.areas
        errors == result.value.errors
    IN  /\ \A i, j \in DOMAIN areas :
             i < j => SourceRank(areas[i].source) <= SourceRank(areas[j].source)
        /\ \A i, j \in DOMAIN errors :
             i < j => SourceRank(errors[i].source) < SourceRank(errors[j].source)
        /\ \A s \in Sources :
             IF calls[s].status = "fulfilled"
             THEN /\ Len(GroupOf(areas, s)) = Len(calls[s].value)
                  /\ \A i \in DOMAIN calls[s].value :
                       /\ GroupOf(areas, s)[i].id = NativeId(calls[s].value[i])
                       /\ GroupOf(areas, s)[i].name = calls[s].value[i].name
                  /\ GroupOf(errors, s) = << >>
             ELSE /\ GroupOf(areas, s) = << >>
                  /\ IF calls[s].status = "rejected"
                     THEN GroupOf(errors, s) =
                            <<[source |-> s, message |-> SpecifiedMessage(calls[s].reason)]>>
                     ELSE GroupOf(errors, s) = << >>

\* The calls completed in the order ramsar, n2000, national; national
\* returned two different records, n2000 failed without a reason.
C29_Witness ==
  /\ pc = "done" /\ settleLog = <<"ramsar", "n2000", "national">>
  /\ calls["national"].status = "fulfilled" /\ Len(calls["national"].value) = 2
  /\ calls["national"].value[1] # calls["national"].value[2]
  /\ calls["ramsar"].status = "fulfilled" /\ Len(calls["ramsar"].value) = 1
  /\ calls["n2000"].status = "rejected" /\ calls["n2000"].reason = NoReason
  /\ result.value.areas[1].source = "national"
  /\ result.value.errors = <<[source |-> "n2000", message |-> "Unknown error"]>>

(***************************************************************************)
(* simplifyPath: subsequence and idempotence                               *)
(***************************************************************************)
\* The positions, in a path, of the points of simplifyPath's result.
KeptPositions(points, tol) ==
  LET kept == simplifyPath(Indexed(points), tol)
  IN  [k \in 1..Len(kept) |-> kept[k][3]]

\* C30: for every ring of at least two points that simplify was given, and
\* every contiguous piece of it, the result of simplifyPath is made of
\* points of the input taken at strictly increasing positions (so none is
\* invented and none is taken twice), the first and last of them are the
\* first and last of the input, and simplifyPath applied to the result
\* with the same tolerance returns the result unchanged.
C30_SubsequenceIdempotent ==
  sdone => \A i \in RingPositions(wkt) :
    LET ring == RingPoints(wkt, i)
    IN  \A points \in (IF Len(ring) >= 2 THEN {ring} ELSE {}) \cup Pieces(ring) :
          LET positions == KeptPositions(points, tolerance)
              reduced == simplifyPath(points, tolerance)
          IN  /\ Len(reduced) = Len(positions)
              /\ Len(reduced) >= 2
              /\ \A k \in DOMAIN positions :
                   /\ positions[k] \in 1..Len(points)
                   /\ reduced[k] = points[positions[k]]
                   /\ k > 1 => positions[k - 1] < positions[k]
              /\ positions[1] = 1
              /\ positions[Len(positions)] = Len(points)
              /\ simplifyPath(reduced, tolerance) = reduced

\* Of a ring of five points simplifyPath kept four, and kept those four
\* when it was given them again.
C30_Witness ==
  /\ sdone
  /\ \E i \in RingPositions(wkt) :
       /\ Len(RingPoints(wkt, i)) = 5
       /\ Len(Reduced(i)) = 4
       /\ simplifyPath(Reduced(i), tolerance) = Reduced(i)

====
